---- MODULE Spec2Model ----
(***************************************************************************)
(* Write-through Memory Bus, its two stores, the failure-streak            *)
(* Governance Monitor, the Agent Registry with its Score Store and the     *)
(* Hebbian Weight Manager of AgenticGovernance-ArtemisCity.                *)
(*                                                                         *)
(* Text is a finite sequence of characters.  A character is a string of    *)
(* the alphabet Chars; "CR" and "LF" stand for carriage return and line    *)
(* feed.  Python's None is the value None below, which is no text.         *)
(* Latencies, timestamps, metrics and the run logger are observability     *)
(* only and are left out; floating point rounding of the cosine score is   *)
(* not modelled (scores are kept as exact squared rationals), nor is that *)
(* of agent scores (kept in exact tenths).                                 *)
(***************************************************************************)
EXTENDS Integers, Sequences, FiniteSets, TLC

\* ------------------------------------------------------------------ bounds
\* most events the monitor may hold before further failing bus writes are cut off
MaxEvents == 3
\* most events the monitor may hold before further direct reports are cut off
MaxReports == 5
\* most consecutive bus writes whose file write raises
MaxFailures == 2
\* largest alert threshold a monitor is constructed with
MaxThreshold == 2
\* largest max_results a read is called with
MaxResults == 2
\* most update_score calls made on the registries over one Score Store
MaxUpdates == 2
\* most strengthen and weaken calls made on one edge between two resets or prunes
MaxActivations == 4
\* largest threshold prune_weak_connections is called with
MaxPrune == 2

\* ------------------------------------------------------------------ text
Chars ==
  {"LF", "CR", " ", "\"", "#", "'", "(", ")", "*", ",", "-", ".", "/", "1",
   "2", "3", ":", "A", "B", "C", "D", "E", "F", "G", "H", "I", "K", "L", "M",
   "N", "O", "P", "Q", "R", "S", "T", "U", "V", "W", "X", "Y", "[", "\\",
   "]", "_", "a", "b", "c", "d", "e", "f", "g", "h", "i", "k", "l", "m", "n",
   "o", "p", "q", "r", "s", "t", "u", "v", "w", "x", "y"}

None == <<"None">>
NoExc == "none"

\* ord(ch)
Ord(ch) ==
  CASE ch = "LF" -> 10 [] ch = "CR" -> 13 [] ch = " " -> 32 [] ch = "\"" -> 34
    [] ch = "#" -> 35 [] ch = "'" -> 39 [] ch = "(" -> 40 [] ch = ")" -> 41
    [] ch = "*" -> 42 [] ch = "," -> 44 [] ch = "-" -> 45 [] ch = "." -> 46
    [] ch = "/" -> 47 [] ch = "1" -> 49 [] ch = "2" -> 50 [] ch = "3" -> 51
    [] ch = ":" -> 58 [] ch = "A" -> 65 [] ch = "B" -> 66 [] ch = "C" -> 67
    [] ch = "D" -> 68 [] ch = "E" -> 69 [] ch = "F" -> 70 [] ch = "G" -> 71
    [] ch = "H" -> 72 [] ch = "I" -> 73 [] ch = "K" -> 75 [] ch = "L" -> 76
    [] ch = "M" -> 77 [] ch = "N" -> 78 [] ch = "O" -> 79 [] ch = "P" -> 80
    [] ch = "Q" -> 81 [] ch = "R" -> 82 [] ch = "S" -> 83 [] ch = "T" -> 84
    [] ch = "U" -> 85 [] ch = "V" -> 86 [] ch = "W" -> 87 [] ch = "X" -> 88
    [] ch = "Y" -> 89 [] ch = "[" -> 91 [] ch = "\\" -> 92 [] ch = "]" -> 93
    [] ch = "_" -> 95 [] ch = "a" -> 97 [] ch = "b" -> 98 [] ch = "c" -> 99
    [] ch = "d" -> 100 [] ch = "e" -> 101 [] ch = "f" -> 102 [] ch = "g" -> 103
    [] ch = "h" -> 104 [] ch = "i" -> 105 [] ch = "k" -> 107 [] ch = "l" -> 108
    [] ch = "m" -> 109 [] ch = "n" -> 110 [] ch = "o" -> 111 [] ch = "p" -> 112
    [] ch = "q" -> 113 [] ch = "r" -> 114 [] ch = "s" -> 115 [] ch = "t" -> 116
    [] ch = "u" -> 117 [] ch = "v" -> 118 [] ch = "w" -> 119 [] ch = "x" -> 120
    [] ch = "y" -> 121

\* ch.lower()
LowerOf(ch) ==
  CASE ch = "A" -> "a" [] ch = "B" -> "b" [] ch = "C" -> "c" [] ch = "D" -> "d"
    [] ch = "E" -> "e" [] ch = "F" -> "f" [] ch = "G" -> "g" [] ch = "H" -> "h"
    [] ch = "I" -> "i" [] ch = "K" -> "k" [] ch = "L" -> "l" [] ch = "M" -> "m"
    [] ch = "N" -> "n" [] ch = "O" -> "o" [] ch = "P" -> "p" [] ch = "Q" -> "q"
    [] ch = "R" -> "r" [] ch = "S" -> "s" [] ch = "T" -> "t" [] ch = "U" -> "u"
    [] ch = "V" -> "v" [] ch = "W" -> "w" [] ch = "X" -> "x" [] ch = "Y" -> "y"
    [] OTHER -> ch

\* ch.upper()
UpperOf(ch) ==
  CASE ch = "a" -> "A" [] ch = "b" -> "B" [] ch = "c" -> "C" [] ch = "d" -> "D"
    [] ch = "e" -> "E" [] ch = "f" -> "F" [] ch = "g" -> "G" [] ch = "h" -> "H"
    [] ch = "i" -> "I" [] ch = "k" -> "K" [] ch = "l" -> "L" [] ch = "m" -> "M"
    [] ch = "n" -> "N" [] ch = "o" -> "O" [] ch = "p" -> "P" [] ch = "q" -> "Q"
    [] ch = "r" -> "R" [] ch = "s" -> "S" [] ch = "t" -> "T" [] ch = "u" -> "U"
    [] ch = "v" -> "V" [] ch = "w" -> "W" [] ch = "x" -> "X" [] ch = "y" -> "Y"
    [] OTHER -> ch

\* str.lower()
Lower(s) == [i \in DOMAIN s |-> LowerOf(s[i])]

\* needle in hay (Python substring test)
Contains(hay, needle) ==
  \E i \in 0..(Len(hay) - Len(needle)) :
    \A j \in 1..Len(needle) : hay[i + j] = needle[j]

\* hay.startswith(pre)
StartsWith(hay, pre) ==
  /\ Len(pre) <= Len(hay)
  /\ \A j \in 1..Len(pre) : hay[j] = pre[j]

\* hay.endswith(suf)
EndsWith(hay, suf) ==
  /\ Len(suf) <= Len(hay)
  /\ \A j \in 1..Len(suf) : hay[Len(hay) - Len(suf) + j] = suf[j]

\* open(..., "r") in text mode: universal newlines, CR LF and lone CR read as LF
UniversalNewlines(s) ==
  LET numbered == [i \in DOMAIN s |-> <<i, s[i]>>]
      Kept(p) == ~(p[2] = "LF" /\ p[1] > 1 /\ s[p[1] - 1] = "CR")
      kept == SelectSeq(numbered, Kept)
  IN  [i \in DOMAIN kept |-> IF kept[i][2] = "CR" THEN "LF" ELSE kept[i][2]]

\* ------------------------------------------------------------------ inputs
PathSpace == <<"d", "/", "a", " ", "b", ".", "m", "d">>
PathUnder == <<"d", "/", "a", "_", "b", ".", "m", "d">>
PathOther == <<"n", ".", "m", "d">>
Paths == {PathSpace, PathUnder, PathOther}

TextEmpty == <<>>
TextUpperCR == <<"A", "CR">>
Contents == {TextEmpty, TextUpperCR}

Queries == {<<>>, <<"a">>}
FolderD == <<"d">>
SearchDirConfigs == {<<>>, <<FolderD>>}

\* ------------------------------------------------------------------ sequences
\* s[:k] of Python for any integer k
Take(s, k) ==
  IF k >= 0
  THEN SubSeq(s, 1, IF k < Len(s) THEN k ELSE Len(s))
  ELSE SubSeq(s, 1, IF Len(s) + k > 0 THEN Len(s) + k ELSE 0)

\* s[-k:] of Python for k >= 0 (s[-0:] is the whole list)
LastSlice(s, k) ==
  IF k = 0 \/ k >= Len(s) THEN s ELSE SubSeq(s, Len(s) - k + 1, Len(s))

RECURSIVE Concat(_)
Concat(ss) == IF ss = <<>> THEN <<>> ELSE Head(ss) \o Concat(Tail(ss))

RECURSIVE SumTo(_, _)
SumTo(f, k) == IF k < 0 THEN 0 ELSE f[k] + SumTo(f, k - 1)

\* ------------------------------------------------------------------ LocalVectorStore
EmbeddingDim == 16

\* hash-bucketed character counts; the division by the norm is left to Cosine,
\* which is unchanged by a positive scaling of either vector
_default_embedding(text) ==
  [k \in 0..(EmbeddingDim - 1) |->
     Cardinality({i \in 1..Len(text) : (Ord(text[i]) + (i - 1)) % EmbeddingDim = k})]

Dot(a, b) == SumTo([k \in 0..(EmbeddingDim - 1) |-> a[k] * b[k]], EmbeddingDim - 1)

\* the square of the cosine, as a fraction: every bucket is >= 0, so the cosine
\* is >= 0 and its square orders the same way; a zero norm is replaced by 1
_cosine_similarity(a, b) ==
  LET na == Dot(a, a)
      nb == Dot(b, b)
  IN [num |-> Dot(a, b) * Dot(a, b),
      den |-> (IF na = 0 THEN 1 ELSE na) * (IF nb = 0 THEN 1 ELSE nb)]

ScoreOne == [num |-> 1, den |-> 1]
ScoreGE(x, y) == x.num * y.den >= y.num * x.den

\* rows are kept in rowid order: an upsert of a known doc_id updates in place,
\* a new doc_id is appended
HasDoc(vs, doc_id) == \E i \in DOMAIN vs : vs[i].doc_id = doc_id

upsert(vs, doc_id, content, metadata) ==
  LET row == [doc_id |-> doc_id, content |-> content, metadata |-> metadata]
  IN IF HasDoc(vs, doc_id)
     THEN [i \in DOMAIN vs |-> IF vs[i].doc_id = doc_id THEN row ELSE vs[i]]
     ELSE Append(vs, row)

\* the DELETE without its commit: the row stays
deleteUncommitted(vs, doc_id) == vs

delete(vs, doc_id) ==
  LET Keep(r) == r.doc_id # doc_id
  IN SelectSeq(vs, Keep)

count(vs) == Len(vs)

\* list.sort(key=score, reverse=True): stable, equal scores keep store order
InsertDesc(sorted, x) ==
  LET ahead == {i \in DOMAIN sorted : ScoreGE(sorted[i].score, x.score)}
      n == Cardinality(ahead)
  IN SubSeq(sorted, 1, n) \o <<x>> \o SubSeq(sorted, n + 1, Len(sorted))

RECURSIVE SortDesc(_)
SortDesc(s) ==
  IF s = <<>> THEN <<>>
  ELSE InsertDesc(SortDesc(SubSeq(s, 1, Len(s) - 1)), s[Len(s)])

query(vs, text, top_k) ==
  LET q == _default_embedding(text)
      scored == [i \in DOMAIN vs |->
                   [doc_id |-> vs[i].doc_id,
                    score |-> _cosine_similarity(q, _default_embedding(vs[i].content)),
                    metadata |-> vs[i].metadata,
                    content |-> vs[i].content]]
  IN Take(SortDesc(scored), top_k)

\* ------------------------------------------------------------------ ObsidianManager
\* the vault is a function from the paths of the files that exist to their text
read_note(v, relative_path) ==
  IF relative_path \in DOMAIN v THEN UniversalNewlines(v[relative_path]) ELSE None

write_note(v, relative_path, content) ==
  [q \in DOMAIN v \cup {relative_path} |->
     IF q = relative_path THEN content ELSE v[q]]

\* how a write_note call can end: "ok"; "unopened", mkdir or open raised and
\* the file is as before; "truncated", open(path, "w") emptied the file and
\* the write raised
WriteFaults == {"ok", "unopened", "truncated"}

FileWriteExc == "IOError"

TryWriteNote(v, relative_path, content, fault) ==
  CASE fault = "ok" -> [vault |-> write_note(v, relative_path, content), exc |-> NoExc]
    [] fault = "unopened" -> [vault |-> v, exc |-> FileWriteExc]
    [] fault = "truncated" ->
         [vault |-> write_note(v, relative_path, <<>>), exc |-> FileWriteExc]

DeleteExc == "RollbackError"
UpsertExc == "StoreUnavailable"

TryUpsert(vs, doc_id, content, metadata, fails) ==
  IF fails THEN [vs |-> vs, exc |-> UpsertExc]
  ELSE [vs |-> upsert(vs, doc_id, content, metadata), exc |-> NoExc]

TryDelete(vs, doc_id, fails) ==
  IF fails THEN [vs |-> vs, exc |-> DeleteExc]
  ELSE [vs |-> delete(vs, doc_id), exc |-> NoExc]

\* ------------------------------------------------------------------ GovernanceMonitor
\* a monitor is [streak, events, log]: _failure_streak, _events and the lines
\* of the durable log file

\* _persist_event: an OSError of the append is caught and the line is lost
_persist_event(log, event, fails) == IF fails THEN log ELSE Append(log, event)

AlertReachedOffByOne(streak, threshold) == streak > threshold

\* line 41
AlertReached(streak, threshold) == streak >= threshold

record_failure(mon, threshold, event, fails1, fails2) ==
  LET streak1 == mon.streak + 1
      ev == [type |-> "memory_bus_failure", doc_id |-> event.doc_id,
             path |-> event.path, error |-> event.error, failures_in_streak |-> 0]
      events1 == Append(mon.events, ev)
      log1 == _persist_event(mon.log, ev, fails1)
      alert_event == [type |-> "governance_alert", doc_id |-> <<>>, path |-> <<>>,
                      error |-> "", failures_in_streak |-> streak1]
  IN IF AlertReached(streak1, threshold)
     THEN [mon |-> [streak |-> streak1,
                    events |-> Append(events1, alert_event),
                    log |-> _persist_event(log1, alert_event, fails2)],
           ret |-> TRUE]
     ELSE [mon |-> [streak |-> streak1, events |-> events1, log |-> log1],
           ret |-> FALSE]

record_success(mon) == [mon EXCEPT !.streak = 0]

get_failure_streak(mon) == mon.streak

get_recent_events(mon, limit) == LastSlice(mon.events, limit)

\* ------------------------------------------------------------------ MemoryBus
\* relative_path.replace(" ", "_")
_normalize_doc_id(relative_path) ==
  [i \in DOMAIN relative_path |->
     IF relative_path[i] = " " THEN "_" ELSE relative_path[i]]

\* Python truth value of an Optional[str]
Truthy(x) == x # None /\ x # <<>>

\* a call on the attached monitor: what the monitor becomes, the calls made
\* on it and the alerts returned; without a monitor nothing happens
_record_governance_failure(attached, mon, threshold, doc_id, path, error, fails1, fails2) ==
  IF ~attached THEN [mon |-> mon, gov |-> <<>>, alerts |-> <<>>]
  ELSE LET r == record_failure(mon, threshold,
                               [doc_id |-> doc_id, path |-> path, error |-> error],
                               fails1, fails2)
       IN [mon |-> r.mon, gov |-> <<"record_failure">>, alerts |-> <<r.ret>>]

_record_governance_success(attached, mon) ==
  IF ~attached THEN [mon |-> mon, gov |-> <<>>, alerts |-> <<>>]
  ELSE [mon |-> record_success(mon), gov |-> <<"record_success">>, alerts |-> <<>>]

WritePlanFileFirst(embed) ==
  IF embed THEN <<"file.write", "vector.upsert">> ELSE <<"file.write">>

\* lines 121-131: the store writes of one call, in program order
WritePlan(embed) ==
  IF embed THEN <<"vector.upsert", "file.write">> ELSE <<"file.write">>

\* one store write; a store write that raised stops the ones after it
RunStoreWrite(st, step, doc_id, relative_path, content, f) ==
  IF st.exc # NoExc THEN st
  ELSE IF step = "vector.upsert"
  THEN LET r == TryUpsert(st.vs, doc_id, content, [path |-> relative_path], f.upsert)
       IN [vs |-> r.vs, vault |-> st.vault, exc |-> r.exc,
           failed |-> IF r.exc # NoExc THEN step ELSE "",
           ops |-> Append(st.ops, step)]
  ELSE LET r == TryWriteNote(st.vault, relative_path, content, f.write)
       IN [vs |-> st.vs, vault |-> r.vault, exc |-> r.exc,
           failed |-> IF r.exc # NoExc THEN step ELSE "",
           ops |-> Append(st.ops, step)]

RECURSIVE RunStoreWrites(_, _, _, _, _, _)
RunStoreWrites(st, steps, doc_id, relative_path, content, f) ==
  IF steps = <<>> THEN st
  ELSE RunStoreWrites(RunStoreWrite(st, Head(steps), doc_id, relative_path, content, f),
                      Tail(steps), doc_id, relative_path, content, f)

RollbackPropagates(vs, doc_id, embed, fails) ==
  IF ~embed THEN [vs |-> vs, exc |-> NoExc, ops |-> <<>>, outcome |-> ""]
  ELSE LET r == TryDelete(vs, doc_id, fails)
       IN [vs |-> r.vs, exc |-> r.exc, ops |-> <<"vector.delete">>,
           outcome |-> IF r.exc = NoExc THEN "deleted" ELSE "failed"]

\* lines 137-145: best-effort rollback, an exception of the delete is logged
\* and dropped
RollbackSemantic(vs, doc_id, embed, fails) ==
  IF ~embed THEN [vs |-> vs, exc |-> NoExc, ops |-> <<>>, outcome |-> ""]
  ELSE LET r == TryDelete(vs, doc_id, fails)
       IN [vs |-> r.vs, exc |-> NoExc, ops |-> <<"vector.delete">>,
           outcome |-> IF r.exc = NoExc THEN "deleted" ELSE "failed"]

\* line 147: raise exc (an exception of the rollback that got out comes first)
Reraise(exc, rollback_exc) == IF rollback_exc # NoExc THEN rollback_exc ELSE exc

write_note_with_embedding(vs, v, attached, mon, threshold, relative_path, content, embed, f) ==
  LET doc_id == _normalize_doc_id(relative_path)
      st0 == [vs |-> vs, vault |-> v, exc |-> NoExc, failed |-> "", ops |-> <<>>]
      st == RunStoreWrites(st0, WritePlan(embed), doc_id, relative_path, content, f)
  IN IF st.exc = NoExc
     THEN LET g == _record_governance_success(attached, mon)
          IN [vs |-> st.vs, vault |-> st.vault, mon |-> g.mon, exc |-> NoExc,
              failed |-> "", rollback |-> "", status |-> "success",
              ops |-> st.ops, gov |-> g.gov, alerts |-> g.alerts]
     ELSE IF st.failed = "file.write"
     THEN LET rb == RollbackSemantic(st.vs, doc_id, embed, f.delete)
              g == IF embed /\ rb.exc = NoExc
                   THEN _record_governance_failure(attached, mon, threshold, doc_id,
                                                   relative_path, st.exc,
                                                   f.persist1, f.persist2)
                   ELSE [mon |-> mon, gov |-> <<>>, alerts |-> <<>>]
          IN [vs |-> rb.vs, vault |-> st.vault, mon |-> g.mon,
              exc |-> Reraise(st.exc, rb.exc), failed |-> st.failed,
              rollback |-> rb.outcome, status |-> "",
              ops |-> st.ops \o rb.ops, gov |-> g.gov, alerts |-> g.alerts]
     ELSE [vs |-> st.vs, vault |-> st.vault, mon |-> mon, exc |-> st.exc,
           failed |-> st.failed, rollback |-> "", status |-> "", ops |-> st.ops,
           gov |-> <<>>, alerts |-> <<>>]

MdSuffix == <<".", "m", "d">>

\* folder_path.rglob("*.md"): the files under the folder, in the order the
\* directory walk yields them (order: an enumeration of all paths)
FolderFiles(v, folder, order) ==
  LET Under(p) == /\ p \in DOMAIN v
                  /\ StartsWith(p, folder \o <<"/">>)
                  /\ EndsWith(p, MdSuffix)
  IN SelectSeq(order, Under)

\* lines 290-321; the loop returns as soon as len(found) >= limit, which it
\* tests only after an append
_keyword_scan(v, dirs, query_text, limit, order) ==
  LET lowered_query == Lower(query_text)
      files == Concat([i \in DOMAIN dirs |-> FolderFiles(v, dirs[i], order)])
      Match(p) == Contains(Lower(UniversalNewlines(v[p])), lowered_query)
      matches == SelectSeq(files, Match)
      found == [i \in DOMAIN matches |->
                  [source |-> "keyword", path |-> matches[i],
                   content |-> UniversalNewlines(v[matches[i]]), score |-> ScoreOne]]
  IN Take(found, IF limit < 1 THEN 1 ELSE limit)

\* lines 198-268: the hits and the store operations made to get them
read(vs, v, dirs, query_text, relative_path, max_results, order) ==
  LET lookup == Truthy(relative_path)
      content == IF lookup THEN read_note(v, relative_path) ELSE None
      exact == IF lookup /\ Truthy(content)
               THEN <<[source |-> "exact", path |-> relative_path,
                       content |-> content, score |-> ScoreOne]>>
               ELSE <<>>
      scan == Len(exact) < max_results /\ dirs # <<>>
      keyword_hits == IF scan
                      THEN _keyword_scan(v, dirs, query_text, max_results - Len(exact), order)
                      ELSE <<>>
      results == exact \o keyword_hits
      remaining == max_results - Len(results)
      recall == remaining > 0 /\ count(vs) > 0
      vector_hits == IF recall THEN query(vs, query_text, remaining) ELSE <<>>
      vector_results == [i \in DOMAIN vector_hits |->
                           [source |-> "vector",
                            path |-> vector_hits[i].metadata.path,
                            content |-> vector_hits[i].content,
                            score |-> vector_hits[i].score]]
  IN [hits |-> results \o vector_results,
      ops |-> (IF lookup THEN <<"file.read">> ELSE <<>>)
              \o (IF scan THEN <<"keyword.scan">> ELSE <<>>)
              \o (IF remaining > 0 THEN <<"vector.count">> ELSE <<>>)
              \o (IF recall THEN <<"vector.query">> ELSE <<>>),
      gov |-> <<>>]

\* ------------------------------------------------------------------ AgentScore
\* a score is [alignment, accuracy, efficiency], each kept in tenths: 0.0 is
\* ScoreMin, 1.0 is ScoreMax; the composite score is kept in hundredths
ScoreMin == 0
ScoreMax == 10

Dimensions == {"alignment", "accuracy", "efficiency"}

\* line 22: alignment * 0.4 + accuracy * 0.4 + efficiency * 0.2
composite_score(score) == score.alignment * 4 + score.accuracy * 4 + score.efficiency * 2

\* line 169
DefaultScore == [alignment |-> 5, accuracy |-> 5, efficiency |-> 5]

\* ------------------------------------------------------------------ AgentRegistryStore
\* table agents: a function from the names that have a row to
\* [capabilities, alignment, accuracy, efficiency]; name is UNIQUE
StoreWriteExc == "sqlite3.OperationalError"

ScoreOfRow(row) ==
  [alignment |-> row.alignment, accuracy |-> row.accuracy, efficiency |-> row.efficiency]

\* lines 62-80; no row holds a NULL score, every INSERT of the code gives all three
load_scores(rows) == [n \in DOMAIN rows |-> ScoreOfRow(rows[n])]

AlwaysDefault(rows, name, default_score) == default_score

\* lines 88-110: the score of the row when there is one
PersistedOrDefault(rows, name, default_score) ==
  IF name \in DOMAIN rows THEN ScoreOfRow(rows[name]) ELSE default_score

\* lines 82-134: the persisted score of a known name, the default of a new
\* one; ON CONFLICT replaces the capabilities and keeps the scores.  A write
\* that raises leaves the table as it was (the connection rolls back).
upsert_agent(rows, agent, default_score, fails) ==
  LET persisted_score == PersistedOrDefault(rows, agent.name, default_score)
      row == [capabilities |-> agent.capabilities,
              alignment |-> persisted_score.alignment,
              accuracy |-> persisted_score.accuracy,
              efficiency |-> persisted_score.efficiency]
  IN  IF fails
        THEN [rows |-> rows, ret |-> persisted_score, exc |-> StoreWriteExc]
        ELSE [rows |-> [n \in DOMAIN rows \cup {agent.name} |->
                          IF n = agent.name THEN row ELSE rows[n]],
              ret |-> persisted_score, exc |-> NoExc]

\* lines 136-153: UPDATE ... WHERE name = ?, which changes no row of another name
store_update_score(rows, agent_id, score, fails) ==
  IF fails
    THEN [rows |-> rows, exc |-> StoreWriteExc]
    ELSE [rows |-> [n \in DOMAIN rows |->
                      IF n = agent_id
                        THEN [rows[n] EXCEPT !.alignment = score.alignment,
                                             !.accuracy = score.accuracy,
                                             !.efficiency = score.efficiency]
                        ELSE rows[n]],
          exc |-> NoExc]

\* ------------------------------------------------------------------ AgentRegistry
\* a registry is [agents, scores, rows]: self.agents as the sequence of its
\* values in insertion order, self.scores, and the table of self.store
IsLive(agents, name) == \E i \in DOMAIN agents : agents[i].name = name

\* lines 162-172
register_agent(reg, agent, fails) ==
  IF IsLive(reg.agents, agent.name)
    THEN [reg |-> reg, exc |-> NoExc, ops |-> <<>>]
    ELSE LET up == upsert_agent(reg.rows, agent, DefaultScore, fails)
         IN  IF up.exc # NoExc
               THEN [reg |-> reg, exc |-> up.exc, ops |-> <<"store.upsert_agent">>]
               ELSE [reg |-> [agents |-> Append(reg.agents, agent),
                              scores |-> [n \in DOMAIN reg.scores \cup {agent.name} |->
                                            IF n = agent.name THEN up.ret
                                            ELSE reg.scores[n]],
                              rows |-> up.rows],
                     exc |-> NoExc, ops |-> <<"store.upsert_agent">>]

MissingCapabilityExc == "ValueError: Task dictionary must contain a 'required_capability' key."
NoCapableAgentExc == "ValueError: No agent found with the required capability"

NotRequiredKeyOnly(task) == "required_capability" \notin DOMAIN task

\* line 180: not task.get("required_capability")
NotRequired(task) ==
  "required_capability" \notin DOMAIN task \/ task["required_capability"] = ""

\* required_capability in agent.capabilities
Lists(capabilities, capability) ==
  \E i \in DOMAIN capabilities : capabilities[i] = capability

\* lines 185-189: the names of the capable agents, in the order of self.agents
RECURSIVE Candidates(_, _)
Candidates(agents, capability) ==
  IF agents = <<>> THEN <<>>
  ELSE (IF Lists(Head(agents).capabilities, capability)
          THEN <<Head(agents).name>> ELSE <<>>)
       \o Candidates(Tail(agents), capability)

\* max keeps the later item although it is not greater
BetterOrEqual(new_key, best_key) == new_key >= best_key

\* max(iterable, key=...) replaces its best item only by a greater one
Better(new_key, best_key) == new_key > best_key

\* lines 197-199: max over the candidates, from the first to the last
RECURSIVE MaxByScore(_, _, _)
MaxByScore(best, rest, scores) ==
  IF rest = <<>> THEN best
  ELSE MaxByScore(IF Better(composite_score(scores[Head(rest)]),
                            composite_score(scores[best]))
                    THEN Head(rest) ELSE best,
                  Tail(rest), scores)

\* lines 177-201
route_task(reg, task) ==
  IF NotRequired(task)
    THEN [ret |-> "", exc |-> MissingCapabilityExc]
    ELSE LET candidates == Candidates(reg.agents, task["required_capability"])
         IN  IF candidates = <<>>
               THEN [ret |-> "", exc |-> NoCapableAgentExc]
               ELSE [ret |-> MaxByScore(Head(candidates), Tail(candidates), reg.scores),
                     exc |-> NoExc]

NoClamp(x) == x

\* line 210: max(0.0, min(1.0, current_score + delta))
Clamp(x) ==
  LET upper == IF x < ScoreMax THEN x ELSE ScoreMax
  IN  IF upper > ScoreMin THEN upper ELSE ScoreMin

\* line 205 with the test left out
AnyScore(scores, agent_id) == TRUE

\* line 205: agent_id in self.scores
HasScore(scores, agent_id) == agent_id \in DOMAIN scores

UnknownKeyExc == "KeyError"

\* lines 203-214: the score in memory is set before the store is written, so a
\* store write that raises leaves the new score in memory only
update_score(reg, agent_id, dimension, delta, fails) ==
  IF ~HasScore(reg.scores, agent_id)
    THEN [reg |-> reg, exc |-> NoExc, ops |-> <<>>]
    ELSE IF agent_id \notin DOMAIN reg.scores
      THEN [reg |-> reg, exc |-> UnknownKeyExc, ops |-> <<>>]
      ELSE LET current_score == reg.scores[agent_id][dimension]
               new_score == Clamp(current_score + delta)
               scores1 == [reg.scores EXCEPT ![agent_id][dimension] = new_score]
               st == store_update_score(reg.rows, agent_id, scores1[agent_id], fails)
           IN  [reg |-> [agents |-> reg.agents, scores |-> scores1, rows |-> st.rows],
                exc |-> st.exc, ops |-> <<"store.update_score">>]

\* a registry made over the table a former one left: lines 157-160
restart(reg) == [agents |-> <<>>, scores |-> load_scores(reg.rows), rows |-> reg.rows]

\* ------------------------------------------------------------------ HebbianWeightManager
\* table node_connections: a function from the (origin, target) pairs that
\* have a row to [weight, activation_count, success_count, failure_count];
\* the pair is UNIQUE.  Weights are whole numbers.
HasEdge(conns, edge) == edge \in DOMAIN conns

\* lines 214-234
get_weight(conns, edge) == IF HasEdge(conns, edge) THEN conns[edge].weight ELSE 0

PutRow(conns, edge, row) ==
  [e \in DOMAIN conns \cup {edge} |-> IF e = edge THEN row ELSE conns[e]]

Strengthened2(weight) == weight + 2

\* line 108 and line 119: weight + 1
Strengthened(weight) == weight + 1

WeakenedUnfloored(weight) == weight - 1

\* line 168 and line 179: max(0, weight - 1)
Weakened(weight) == IF weight - 1 > 0 THEN weight - 1 ELSE 0

UpdatedFromRead(row_weight, new_weight) == new_weight

\* line 119: DO UPDATE SET weight = weight + 1, whatever the caller computed
UpdatedInRow(row_weight, new_weight) == Strengthened(row_weight)

\* lines 110-133: the statement run with the weight get_weight returned some
\* time before.  The INSERT of a new pair takes the weight computed from that
\* read, the UPDATE of a known pair computes it from the row; the value
\* returned (line 152) is the one computed from the read
strengthen_write(conns, edge, current_weight) ==
  LET new_weight == Strengthened(current_weight)
      row == IF HasEdge(conns, edge)
               THEN [conns[edge] EXCEPT !.weight = UpdatedInRow(@, new_weight),
                                        !.activation_count = @ + 1,
                                        !.success_count = @ + 1]
               ELSE [weight |-> new_weight, activation_count |-> 1,
                     success_count |-> 1, failure_count |-> 0]
  IN  [conns |-> PutRow(conns, edge, row), ret |-> new_weight]

\* lines 94-152, run by one caller alone: the read at line 106 and the
\* statement see the same table
strengthen_connection(conns, edge) ==
  strengthen_write(conns, edge, get_weight(conns, edge))

WeakenCountsSuccess(row) ==
  [row EXCEPT !.activation_count = @ + 1, !.success_count = @ + 1]

\* lines 180-181
WeakenCounts(row) ==
  [row EXCEPT !.activation_count = @ + 1, !.failure_count = @ + 1]

\* lines 170-193: the statement run with the weight get_weight returned some
\* time before; the value returned (line 212) is the one computed from the read
weaken_write(conns, edge, current_weight) ==
  LET new_weight == Weakened(current_weight)
      row == IF HasEdge(conns, edge)
               THEN [WeakenCounts(conns[edge]) EXCEPT !.weight = Weakened(@)]
               ELSE WeakenCounts([weight |-> new_weight, activation_count |-> 0,
                                  success_count |-> 0, failure_count |-> 0])
  IN  [conns |-> PutRow(conns, edge, row), ret |-> new_weight]

\* lines 154-212, run by one caller alone
weaken_connection(conns, edge) ==
  weaken_write(conns, edge, get_weight(conns, edge))

IsWeakStrict(weight, threshold) == weight < threshold

\* line 382: WHERE weight <= ?
IsWeak(weight, threshold) == weight <= threshold

\* lines 368-394: the rows deleted are counted by cursor.rowcount
prune_weak_connections(conns, threshold) ==
  LET pruned == {e \in DOMAIN conns : IsWeak(conns[e].weight, threshold)}
  IN  [conns |-> [e \in DOMAIN conns \ pruned |-> conns[e]],
       ret |-> Cardinality(pruned)]

\* lines 396-401
reset_weights(conns) == [e \in {} |-> conns[e]]

\* ------------------------------------------------------------------ state
VARIABLES
  vector_store,        \* LocalVectorStore: the rows of table vectors, in rowid order
  vault,               \* ObsidianManager: the files of the vault
  search_dirs,         \* MemoryBus.search_dirs
  governance_monitor,  \* TRUE when the bus was given a monitor
  alert_threshold,     \* GovernanceMonitor.alert_threshold
  _failure_streak,     \* GovernanceMonitor._failure_streak
  _events,             \* GovernanceMonitor._events
  log_file,            \* the lines of GovernanceMonitor.log_path
  call,                \* the last call that ended: its arguments and what it did
  since_success,       \* record_failure calls since the last record_success
  failed_writes,       \* bus writes whose file write raised, since the last write that succeeded
  agents,              \* AgentRegistry.agents: the live agents, in insertion order
  scores,              \* AgentRegistry.scores
  store,               \* AgentRegistryStore: the rows of table agents
  score_updates,       \* update_score calls made so far
  node_connections,    \* HebbianWeightManager: the rows of table node_connections
  last_counts,         \* the counters each pair had after the last strengthen or weaken on it
  callers,             \* the strengthen and weaken calls between their read and their statement
  checkpoint_history,  \* RollbackManager.checkpoint_history
  checkpoint_files,    \* the files <id>.json of checkpoint_dir: the state each holds
  max_checkpoints,     \* RollbackManager.max_checkpoints
  clock,               \* int(time.time())
  created,             \* the ids create_checkpoint returned, in order
  _rollback_log        \* RollbackManager._rollback_log

vars == <<vector_store, vault, search_dirs, governance_monitor, alert_threshold,
          _failure_streak, _events, log_file, call, since_success, failed_writes,
          agents, scores, store, score_updates, node_connections, last_counts,
          callers, checkpoint_history, checkpoint_files, max_checkpoints, clock,
          created, _rollback_log>>

weightVars == <<node_connections, last_counts, callers>>
rollbackVars == <<checkpoint_history, checkpoint_files, max_checkpoints, clock,
                  created, _rollback_log>>

busVars == <<vector_store, vault, search_dirs, governance_monitor>>
monVars == <<alert_threshold, _failure_streak, _events, log_file>>
registryVars == <<agents, scores, store, score_updates>>
memoryVars == <<busVars, monVars, since_success, failed_writes>>

Registry == [agents |-> agents, scores |-> scores, rows |-> store]

Monitor == [streak |-> _failure_streak, events |-> _events, log |-> log_file]

\* the rows of the index under a doc_id (none or one)
RowsOf(vs, doc_id) == {vs[i] : i \in {j \in DOMAIN vs : vs[j].doc_id = doc_id}}

FileOf(v, p) == IF p \in DOMAIN v THEN v[p] ELSE None

NoCall ==
  [op |-> "none", path |-> None, content |-> None, embed |-> FALSE,
   query |-> None, max_results |-> 0,
   exc |-> NoExc, failed |-> "", rollback |-> "", status |-> "", hits |-> <<>>,
   ops |-> <<>>, gov |-> <<>>, alerts |-> <<>>]

\* ------------------------------------------------------------------ inputs of the calls
\* what can go wrong in one write call: the upsert, the file write, the
\* rollback delete and the two appends to the governance log
AllFaults ==
  [upsert : BOOLEAN, write : WriteFaults, delete : BOOLEAN,
   persist1 : BOOLEAN, persist2 : BOOLEAN]

NoFault ==
  [upsert |-> FALSE, write |-> "ok", delete |-> FALSE,
   persist1 |-> FALSE, persist2 |-> FALSE]

\* a fault is the outcome of an operation the call reaches: nothing is drawn
\* for an operation that does not run; the appends to the governance log
\* succeed within bus calls (RecordFailure draws their faults)
Reached(embed, f) ==
  /\ ~embed => f.upsert = FALSE /\ f.delete = FALSE
  /\ f.upsert => f.write = "ok"
  /\ f.write = "ok" => f.delete = FALSE
  /\ f.persist1 = FALSE /\ f.persist2 = FALSE

\* the faults of the failing manager of the tests: write_note raises before it
\* touches the file, and every index operation succeeds
CleanFaults ==
  {f \in AllFaults : ~f.upsert /\ ~f.delete /\ f.write # "truncated"}

\* the paths written under faults: two notes whose doc ids coincide
BusPaths == {PathSpace, PathUnder}

\* the files the keyword scan walks
Scanned(v, dirs) ==
  {p \in DOMAIN v : \E i \in DOMAIN dirs : StartsWith(p, dirs[i] \o <<"/">>)}

\* the directory walk may yield the files in any order
Orders(files) ==
  {o \in [1..Cardinality(files) -> files] : \A i, j \in DOMAIN o : i # j => o[i] # o[j]}

\* events a reporter other than the bus hands to record_failure
ReporterEvents ==
  {[doc_id |-> _normalize_doc_id(p), path |-> p, error |-> FileWriteExc] : p \in BusPaths}

DefaultAlertThreshold == 3

DEFAULT_MAX_CHECKPOINTS == 50

\* the callers of the Weight Manager that may run at the same time
Callers == {"c1", "c2"}

\* a caller that is not inside strengthen_connection or weaken_connection
Idle == [pc |-> "idle"]

\* ------------------------------------------------------------------ Init
\* everything but the registry: empty stores, a monitor that saw nothing
InitStores ==
  /\ vector_store = <<>>
  /\ vault = <<>>
  /\ _failure_streak = 0
  /\ _events = <<>>
  /\ log_file = <<>>
  /\ call = NoCall
  /\ since_success = 0
  /\ failed_writes = 0
  /\ score_updates = 0
  /\ node_connections = <<>>
  /\ last_counts = <<>>
  /\ callers = [c \in Callers |-> Idle]
  /\ checkpoint_history = <<>>
  /\ checkpoint_files = <<>>
  /\ clock = 0
  /\ created = <<>>
  /\ _rollback_log = <<>>

\* a registry that no agent was registered with, over an empty Score Store
EmptyRegistry ==
  /\ agents = <<>>
  /\ scores = <<>>
  /\ store = <<>>

InitState ==
  /\ InitStores
  /\ EmptyRegistry

\* a monitor of any threshold, reported to directly
InitGov ==
  /\ InitState
  /\ max_checkpoints = DEFAULT_MAX_CHECKPOINTS
  /\ search_dirs = <<>>
  /\ governance_monitor = FALSE
  /\ alert_threshold \in 0..MaxThreshold

\* a bus with or without a monitor
InitBus ==
  /\ InitState
  /\ max_checkpoints = DEFAULT_MAX_CHECKPOINTS
  /\ search_dirs = <<>>
  /\ governance_monitor \in BOOLEAN
  /\ alert_threshold \in {1, MaxThreshold}

\* a bus with a default monitor, with or without folders to scan
InitRead ==
  /\ InitState
  /\ max_checkpoints = DEFAULT_MAX_CHECKPOINTS
  /\ search_dirs \in SearchDirConfigs
  /\ governance_monitor = TRUE
  /\ alert_threshold = DefaultAlertThreshold

\* ------------------------------------------------------------------ actions
\* what the calls made on the monitor do to the count of failures since the
\* last success
CountSince(n, gov) ==
  IF gov = <<>> THEN n
  ELSE IF gov[Len(gov)] = "record_success" THEN 0 ELSE n + Len(gov)

\* MemoryBus.write_note_with_embedding(relative_path, content, embed=embed)
WriteNote(paths, faults) ==
  \E relative_path \in paths, content \in Contents, embed \in BOOLEAN, f \in faults :
    /\ Reached(embed, f)
    /\ \E r \in {write_note_with_embedding(vector_store, vault, governance_monitor,
                                           Monitor, alert_threshold,
                                           relative_path, content, embed, f)} :
         /\ Len(r.mon.events) <= MaxEvents
         /\ r.failed = "file.write" => failed_writes < MaxFailures
         /\ vector_store' = r.vs
         /\ vault' = r.vault
         /\ _failure_streak' = r.mon.streak
         /\ _events' = r.mon.events
         /\ log_file' = r.mon.log
         /\ call' = [NoCall EXCEPT !.op = "write", !.path = relative_path,
                       !.content = content, !.embed = embed,
                       !.exc = r.exc, !.failed = r.failed,
                       !.rollback = r.rollback, !.status = r.status,
                       !.ops = r.ops, !.gov = r.gov, !.alerts = r.alerts]
         /\ since_success' = CountSince(since_success, r.gov)
         /\ failed_writes' = IF r.exc = NoExc THEN 0
                             ELSE IF r.failed = "file.write" THEN failed_writes + 1
                             ELSE failed_writes
    /\ UNCHANGED <<search_dirs, governance_monitor, alert_threshold,
                   registryVars, weightVars, rollbackVars>>

\* MemoryBus.read(query, relative_path, max_results)
Read ==
  \E query_text \in Queries, relative_path \in Paths \cup {None},
     max_results \in 0..MaxResults, order \in Orders(Scanned(vault, search_dirs)) :
    /\ \E r \in {read(vector_store, vault, search_dirs, query_text, relative_path,
                      max_results, order)} :
         call' = [NoCall EXCEPT !.op = "read", !.path = relative_path,
                    !.query = query_text, !.max_results = max_results,
                    !.hits = r.hits, !.ops = r.ops, !.gov = r.gov]
    /\ UNCHANGED <<memoryVars, registryVars, weightVars, rollbackVars>>

\* GovernanceMonitor.record_failure(event), called by any reporter
RecordFailure ==
  \E event \in ReporterEvents, fails1 \in BOOLEAN, fails2 \in BOOLEAN :
    /\ \E r \in {record_failure(Monitor, alert_threshold, event, fails1, fails2)} :
         /\ Len(r.mon.events) <= MaxReports
         /\ _failure_streak' = r.mon.streak
         /\ _events' = r.mon.events
         /\ log_file' = r.mon.log
         /\ call' = [NoCall EXCEPT !.op = "record_failure", !.alerts = <<r.ret>>,
                       !.gov = <<"record_failure">>]
    /\ since_success' = since_success + 1
    /\ UNCHANGED <<busVars, alert_threshold, failed_writes, registryVars, weightVars, rollbackVars>>

\* GovernanceMonitor.record_success()
RecordSuccess ==
  /\ \E m \in {record_success(Monitor)} :
       /\ _failure_streak' = m.streak
       /\ _events' = m.events
       /\ log_file' = m.log
  /\ call' = [NoCall EXCEPT !.op = "record_success", !.gov = <<"record_success">>]
  /\ since_success' = 0
  /\ UNCHANGED <<busVars, alert_threshold, failed_writes, registryVars, weightVars, rollbackVars>>

\* ------------------------------------------------------------------ registry calls
\* the agents handed to register_agent: two names, one of them with either
\* of two capability lists
AgentPool ==
  {[name |-> "A", capabilities |-> <<"x">>],
   [name |-> "B", capabilities |-> <<"y">>],
   [name |-> "B", capabilities |-> <<"x", "y">>]}

AgentNames == {a.name : a \in AgentPool}

\* task dictionaries: without the key, with an empty capability, with one
\* that some agent lists and with one that no agent lists
Tasks ==
  {[title |-> "t"]}
    \cup {[required_capability |-> c] : c \in {"", "x", "y", "z"}}

\* deltas that stay inside [0, 1] from the default and deltas that leave it
Deltas == {-12, 4, 12}

\* a registry over an empty Score Store
InitRegistry ==
  /\ InitState
  /\ max_checkpoints = DEFAULT_MAX_CHECKPOINTS
  /\ search_dirs = <<>>
  /\ governance_monitor = FALSE
  /\ alert_threshold = DefaultAlertThreshold

\* AgentRegistry.register_agent(agent); the store write may raise
RegisterAgent ==
  \E agent \in AgentPool, fails \in BOOLEAN :
    /\ fails => ~IsLive(agents, agent.name)
    /\ \E r \in {register_agent(Registry, agent, fails)} :
         /\ agents' = r.reg.agents
         /\ scores' = r.reg.scores
         /\ store' = r.reg.rows
         /\ call' = [op |-> "register_agent", agent |-> agent,
                     exc |-> r.exc, ops |-> r.ops]
    /\ UNCHANGED <<memoryVars, score_updates, weightVars, rollbackVars>>

\* AgentRegistry.route_task(task)
RouteTask ==
  \E task \in Tasks :
    /\ \E r \in {route_task(Registry, task)} :
         call' = [op |-> "route_task", task |-> task, ret |-> r.ret, exc |-> r.exc]
    /\ UNCHANGED <<memoryVars, registryVars, weightVars, rollbackVars>>

\* AgentRegistry.update_score(agent_id, dimension, delta); the store write may raise
UpdateScore ==
  \E agent_id \in AgentNames, dimension \in Dimensions, delta \in Deltas,
     fails \in BOOLEAN :
    /\ score_updates < MaxUpdates
    /\ fails => HasScore(scores, agent_id)
    /\ \E r \in {update_score(Registry, agent_id, dimension, delta, fails)} :
         /\ agents' = r.reg.agents
         /\ scores' = r.reg.scores
         /\ store' = r.reg.rows
         /\ call' = [op |-> "update_score", agent_id |-> agent_id,
                     dimension |-> dimension, delta |-> delta,
                     exc |-> r.exc, ops |-> r.ops]
    /\ score_updates' = score_updates + 1
    /\ UNCHANGED <<memoryVars, weightVars, rollbackVars>>

\* the process ends and AgentRegistry(db_path) is made again over the same file
Restart ==
  /\ \E r \in {restart(Registry)} :
       /\ agents' = r.agents
       /\ scores' = r.scores
       /\ store' = r.rows
  /\ call' = [op |-> "restart"]
  /\ UNCHANGED <<memoryVars, score_updates, weightVars, rollbackVars>>

\* ------------------------------------------------------------------ weight calls
Edges == {<<"agent", "t1">>, <<"agent", "t2">>}

\* the three counters of a row
CountsOfRow(row) == <<row.activation_count, row.success_count, row.failure_count>>

Activations(conns, edge) ==
  IF HasEdge(conns, edge) THEN conns[edge].activation_count ELSE 0

InitHebbian ==
  /\ InitState
  /\ max_checkpoints = DEFAULT_MAX_CHECKPOINTS
  /\ search_dirs = <<>>
  /\ governance_monitor = FALSE
  /\ alert_threshold = DefaultAlertThreshold

\* HebbianWeightManager.strengthen_connection(origin, target)
Strengthen ==
  \E edge \in Edges :
    /\ Activations(node_connections, edge) < MaxActivations
    /\ \E r \in {strengthen_connection(node_connections, edge)} :
         /\ node_connections' = r.conns
         /\ last_counts' = PutRow(last_counts, edge, CountsOfRow(r.conns[edge]))
         /\ call' = [op |-> "strengthen_connection", edge |-> edge, ret |-> r.ret]
    /\ UNCHANGED <<memoryVars, registryVars, callers, rollbackVars>>

\* HebbianWeightManager.weaken_connection(origin, target)
Weaken ==
  \E edge \in Edges :
    /\ Activations(node_connections, edge) < MaxActivations
    /\ \E r \in {weaken_connection(node_connections, edge)} :
         /\ node_connections' = r.conns
         /\ last_counts' = PutRow(last_counts, edge, CountsOfRow(r.conns[edge]))
         /\ call' = [op |-> "weaken_connection", edge |-> edge, ret |-> r.ret]
    /\ UNCHANGED <<memoryVars, registryVars, callers, rollbackVars>>

\* HebbianWeightManager.prune_weak_connections(threshold)
Prune ==
  \E threshold \in (-1)..MaxPrune :
    /\ \E r \in {prune_weak_connections(node_connections, threshold)} :
         /\ node_connections' = r.conns
         /\ call' = [op |-> "prune_weak_connections", threshold |-> threshold,
                     ret |-> r.ret]
    /\ UNCHANGED <<memoryVars, registryVars, last_counts, callers, rollbackVars>>

\* HebbianWeightManager.reset_weights()
Reset ==
  /\ node_connections' = reset_weights(node_connections)
  /\ call' = [op |-> "reset_weights"]
  /\ UNCHANGED <<memoryVars, registryVars, last_counts, callers, rollbackVars>>

\* ------------------------------------------------------------------ specifications
WriteAnyFault == WriteNote(BusPaths, AllFaults)
WriteNoFault == WriteNote(Paths, {NoFault})
WriteCleanFault == WriteNote(BusPaths, CleanFaults)

\* the monitor alone, called by whoever reports to it
NextGov == RecordFailure \/ RecordSuccess
SpecGov == InitGov /\ [][NextGov]_vars

\* bus writes under every fault
NextBus == WriteAnyFault
SpecBus == InitBus /\ [][NextBus]_vars

\* bus writes whose only fault is a write_note that raises
NextClean == WriteCleanFault
SpecClean == InitBus /\ [][NextClean]_vars

\* writes that succeed, and reads
NextRead == WriteNoFault \/ Read
SpecRead == InitRead /\ [][NextRead]_vars

\* the registry and its Score Store, across restarts
NextRegistry == RegisterAgent \/ RouteTask \/ UpdateScore \/ Restart
SpecRegistry == InitRegistry /\ [][NextRegistry]_vars

\* the weight manager, one caller
NextHebbian == Strengthen \/ Weaken \/ Prune \/ Reset
SpecHebbian == InitHebbian /\ [][NextHebbian]_vars

\* ------------------------------------------------------------------ claims
DocIdOf(c) == _normalize_doc_id(c.path)

\* a bus write with embedding on whose upsert succeeded and whose file write raised
RolledBack(c) == c.op = "write" /\ c.embed /\ c.failed = "file.write"

C2_FailedWriteKeepsCommitted ==
  [][call'.op = "write" /\ call'.failed = "file.write" =>
       /\ (call.op = "write" /\ call.status = "success" /\ call.embed
             /\ call.path = call'.path)
          => /\ \E row \in RowsOf(vector_store', DocIdOf(call')) :
                  row.content = call.content
             /\ FileOf(vault', call'.path) = call.content
       /\ call.op = "none"
          => /\ ~HasDoc(vector_store', DocIdOf(call'))
             /\ call'.path \notin DOMAIN vault']_vars

\* C3: record_failure returns true iff the failures recorded since the last
\* record_success, this one included, number at least the threshold;
\* record_success leaves the streak at 0 and changes nothing when it is 0.
C3_AlertIffStreakReachesThreshold ==
  /\ [](call.op = "record_failure" =>
          /\ call.alerts[1] <=> since_success >= alert_threshold
          /\ _failure_streak = since_success)
  /\ [](call.op = "record_success" => _failure_streak = 0)
  /\ [][call'.op = "record_success" /\ _failure_streak = 0 => UNCHANGED monVars]_vars

C3_Witness ==
  /\ call.op = "record_failure"
  /\ call.alerts = <<TRUE>>
  /\ alert_threshold = 2
  /\ since_success = alert_threshold
  /\ Len(_events) > 3

\* C4: with a monitor attached and the bus its only reporter, the streak is
\* the number of writes whose file write failed since the last write that
\* succeeded.
C4_StreakCountsFailedWrites ==
  governance_monitor => _failure_streak = failed_writes

\* C5: every read that completes makes one record_success or record_failure
\* call on the attached monitor.
C5_ReadSignalsGovernance ==
  call.op = "read" /\ governance_monitor => Len(call.gov) = 1

\* C6: a write whose file write raises ends by raising that exception, and
\* never returns success, whether the rollback delete fails or not and
\* whether the monitor alerts or not.
C6_FileErrorPropagates ==
  call.op = "write" /\ call.failed = "file.write" =>
    call.exc = FileWriteExc /\ call.status # "success"

\* the rollback delete ran and failed (the row is still there), and the
\* monitor alerted
C6_Witness ==
  /\ RolledBack(call)
  /\ call.exc = FileWriteExc
  /\ HasDoc(vector_store, DocIdOf(call))
  /\ call.alerts = <<TRUE>>

Occurrences(ops, name) == Cardinality({i \in DOMAIN ops : ops[i] = name})

\* C7: with embedding on the upsert is attempted before the file write; when
\* the upsert raises the file write is not attempted; each store is written
\* at most once, and a rollback delete after a failed file write is the only
\* other store operation.
C7_WriteOrderNoRetry ==
  call.op = "write" =>
    /\ call.embed => call.ops # <<>> /\ call.ops[1] = "vector.upsert"
    /\ ~call.embed => Occurrences(call.ops, "vector.upsert") = 0
    /\ call.failed = "vector.upsert" => Occurrences(call.ops, "file.write") = 0
    /\ Occurrences(call.ops, "vector.upsert") <= 1
    /\ Occurrences(call.ops, "file.write") <= 1
    /\ Occurrences(call.ops, "vector.delete") <= 1
    /\ \A i \in DOMAIN call.ops :
         /\ call.ops[i] \in {"vector.upsert", "file.write", "vector.delete"}
         /\ call.ops[i] = "vector.delete" =>
              i = Len(call.ops) /\ call.failed = "file.write"

C7_Witness ==
  /\ call.op = "write"
  /\ call.ops = <<"vector.upsert", "file.write", "vector.delete">>

\* C8: a write that succeeds, followed at once by a read of its key that asks
\* for at least one result, returns a hit for the key with the content written.
C8_WriteReadRoundTrip ==
  [][(/\ call.op = "write" /\ call.status = "success"
      /\ call'.op = "read" /\ call'.path = call.path /\ call'.max_results >= 1)
     => \E i \in DOMAIN call'.hits :
          /\ call'.hits[i].path = call.path
          /\ call'.hits[i].content = call.content]_vars

\* C9: a read returns at most max_results hits.
C9_AtMostMaxResults ==
  call.op = "read" => Len(call.hits) <= call.max_results

Tier(source) == CASE source = "exact" -> 1 [] source = "keyword" -> 2 [] source = "vector" -> 3

\* the hits are in tier order, exact and keyword hits score 1.0, and the
\* index is queried only when slots remain after the first two tiers and
\* the index is not empty
ReadTierOrder ==
  call.op = "read" =>
    /\ \A i, j \in DOMAIN call.hits :
         i < j => Tier(call.hits[i].source) <= Tier(call.hits[j].source)
    /\ \A i \in DOMAIN call.hits :
         /\ call.hits[i].source # "vector" => call.hits[i].score = ScoreOne
         /\ call.hits[i].source = "exact" => i = 1 /\ call.hits[i].path = call.path
    /\ Occurrences(call.ops, "vector.query") = 1 =>
         /\ count(vector_store) > 0
         /\ Cardinality({i \in DOMAIN call.hits : call.hits[i].source # "vector"})
              < call.max_results
    /\ Occurrences(call.ops, "vector.query") = 0 =>
         \A i \in DOMAIN call.hits : call.hits[i].source # "vector"

\* C10: the hits are in tier order; when the exact key is in the document
\* store its hit, of score 1.0, is first; the index is queried only when
\* slots remain and it is not empty.
C10_TierOrderExactFirst ==
  /\ ReadTierOrder
  /\ (/\ call.op = "read" /\ call.max_results >= 1
      /\ Truthy(call.path) /\ call.path \in DOMAIN vault)
     => /\ call.hits # <<>>
        /\ call.hits[1].source = "exact"
        /\ call.hits[1].score = ScoreOne

\* what holds of the exact tier: a document that is not empty is the first hit
ExactFirstWhenNotEmpty ==
  (/\ call.op = "read" /\ Truthy(call.path)
   /\ call.path \in DOMAIN vault /\ vault[call.path] # <<>>)
  => /\ call.hits # <<>>
     /\ call.hits[1].source = "exact"
     /\ call.hits[1].score = ScoreOne
     /\ call.hits[1].content = UniversalNewlines(vault[call.path])

\* ------------------------------------------------------------------ registry claims
RequiredOf(task) ==
  IF "required_capability" \in DOMAIN task THEN task["required_capability"] ELSE ""

\* the positions in self.agents of the agents that list the capability
CapableAt(capability) ==
  {i \in DOMAIN agents :
     \E k \in DOMAIN agents[i].capabilities : agents[i].capabilities[k] = capability}

CompositeAt(i) ==
  4 * scores[agents[i].name].alignment + 4 * scores[agents[i].name].accuracy
    + 2 * scores[agents[i].name].efficiency

\* C11: when some registered agent lists the required capability, route_task
\* returns a registered agent that lists it and whose composite score is
\* maximal among the agents that list it, and of those with the maximal score
\* the one registered first.
C11_RouteBestFirstRegistered ==
  (call.op = "route_task" /\ RequiredOf(call.task) # ""
     /\ CapableAt(RequiredOf(call.task)) # {}) =>
    /\ call.exc = NoExc
    /\ \E i \in CapableAt(RequiredOf(call.task)) :
         /\ agents[i].name = call.ret
         /\ \A j \in CapableAt(RequiredOf(call.task)) :
              /\ CompositeAt(j) <= CompositeAt(i)
              /\ CompositeAt(j) = CompositeAt(i) => i <= j

\* two capable agents of different scores tie for the maximum and the first
\* registered is returned
C11_Witness ==
  /\ call.op = "route_task"
  /\ call.exc = NoExc
  /\ \E i, j \in CapableAt(RequiredOf(call.task)) :
       /\ i < j
       /\ CompositeAt(i) = CompositeAt(j)
       /\ scores[agents[i].name] # scores[agents[j].name]
       /\ call.ret = agents[i].name

\* C12: route_task raises the missing-capability error exactly when the task
\* has no required capability or an empty one, the no-capable-agent error,
\* which is another error, exactly when the capability is given and no
\* registered agent lists it, and returns an agent in every other case; it
\* changes no state.
C12_RouteFailsInTwoCases ==
  /\ [](call.op = "route_task" =>
          /\ MissingCapabilityExc # NoCapableAgentExc
          /\ call.exc = MissingCapabilityExc <=> RequiredOf(call.task) = ""
          /\ call.exc = NoCapableAgentExc <=>
               (RequiredOf(call.task) # "" /\ CapableAt(RequiredOf(call.task)) = {})
          /\ call.exc \in {MissingCapabilityExc, NoCapableAgentExc, NoExc}
          /\ call.exc = NoExc => \E i \in DOMAIN agents : agents[i].name = call.ret)
  /\ [][call'.op = "route_task" => UNCHANGED <<agents, scores, store>>]_vars

\* A lists x only and B lists y only: a task needing z has no capable agent
C12_Witness ==
  /\ call.op = "route_task"
  /\ call.exc = NoCapableAgentExc
  /\ RequiredOf(call.task) = "z"
  /\ Len(agents) = 2
  /\ \E i, j \in DOMAIN agents :
       agents[i].capabilities = <<"x">> /\ agents[j].capabilities = <<"y">>

ScoreIn(rows, n) ==
  [alignment |-> rows[n].alignment, accuracy |-> rows[n].accuracy,
   efficiency |-> rows[n].efficiency]

HalfScore == [alignment |-> 5, accuracy |-> 5, efficiency |-> 5]

\* C13: register_agent of a live name changes nothing; of a name that is not
\* live and has a persisted score, it adopts the persisted score; of a name
\* with no persisted score, it gives (0.5, 0.5, 0.5), which the Score Store
\* holds when the call returns; the score of no other name changes.
C13_RegisterKeepsScores ==
  [][call'.op = "register_agent" =>
       /\ IsLive(agents, call'.agent.name) =>
            /\ call'.exc = NoExc
            /\ UNCHANGED <<agents, scores, store>>
       /\ (~IsLive(agents, call'.agent.name) /\ call'.exc = NoExc) =>
            /\ IsLive(agents', call'.agent.name)
            /\ call'.agent.name \in DOMAIN store'
            /\ ScoreIn(store', call'.agent.name) = scores'[call'.agent.name]
            /\ scores'[call'.agent.name] =
                 (IF call'.agent.name \in DOMAIN store
                    THEN ScoreIn(store, call'.agent.name) ELSE HalfScore)
            /\ \A n \in DOMAIN scores \ {call'.agent.name} : scores'[n] = scores[n]
            /\ \A n \in DOMAIN store \ {call'.agent.name} : store'[n] = store[n]]_vars

\* a name registered again after a restart took the score that was persisted,
\* which is not the default
C13_Witness ==
  /\ call.op = "register_agent"
  /\ call.exc = NoExc
  /\ call.ops # <<>>
  /\ scores[call.agent.name] # HalfScore
  /\ ScoreIn(store, call.agent.name) = scores[call.agent.name]

Clamped(x) == IF x < 0 THEN 0 ELSE IF x > 10 THEN 10 ELSE x

\* C14: every dimension of every score and every composite score lies in
\* [0, 1]; an update_score of a name that has a score sets the named
\* dimension to clamp(old + delta, 0, 1) and leaves the other two as they were.
C14_ScoresStayInUnitInterval ==
  /\ [](\A n \in DOMAIN scores :
          /\ \A d \in {"alignment", "accuracy", "efficiency"} :
               scores[n][d] >= 0 /\ scores[n][d] <= 10
          /\ 4 * scores[n].alignment + 4 * scores[n].accuracy
               + 2 * scores[n].efficiency \in 0..100)
  /\ [][(call'.op = "update_score" /\ call'.agent_id \in DOMAIN scores) =>
          \A d \in {"alignment", "accuracy", "efficiency"} :
            scores'[call'.agent_id][d] =
              (IF d = call'.dimension
                 THEN Clamped(scores[call'.agent_id][d] + call'.delta)
                 ELSE scores[call'.agent_id][d])]_vars

\* one score was clamped at 1 by an update and another at 0
C14_Witness ==
  /\ call.op = "update_score"
  /\ call.agent_id \in DOMAIN scores
  /\ call.delta = 12
  /\ scores[call.agent_id][call.dimension] = 10
  /\ \E n \in DOMAIN scores, d \in {"alignment", "accuracy", "efficiency"} :
       scores[n][d] = 0

\* C15: update_score of a name that has no score raises nothing and changes
\* no score in memory and no row of the Score Store.
C15_UnknownUpdateIsNoOp ==
  [][(call'.op = "update_score" /\ call'.agent_id \notin DOMAIN scores) =>
       /\ call'.exc = NoExc
       /\ UNCHANGED <<agents, scores, store>>]_vars

\* an update for a name without a score, in a registry that holds another agent
C15_Witness ==
  /\ call.op = "update_score"
  /\ call.agent_id \notin DOMAIN scores
  /\ call.agent_id \notin DOMAIN store
  /\ agents # <<>>

\* C16: after any register_agent and update_score calls, also those whose
\* Score Store write raises, the row of every registered agent holds the
\* score the registry holds in memory.
C16_StoreMirrorsScores ==
  \A i \in DOMAIN agents :
    /\ agents[i].name \in DOMAIN store
    /\ ScoreIn(store, agents[i].name) = scores[agents[i].name]

\* ------------------------------------------------------------------ weight claims
WeightOf(conns, e) == IF e \in DOMAIN conns THEN conns[e].weight ELSE 0

CountsOf(conns, e) ==
  IF e \in DOMAIN conns
    THEN <<conns[e].activation_count, conns[e].success_count, conns[e].failure_count>>
    ELSE <<0, 0, 0>>

\* C17: a strengthen leaves the edge stored with the weight it had (0 when it
\* was never created) plus 1, a weaken with that weight minus 1 and not less
\* than 0, and each call returns the weight stored.
C17_StrengthenWeakenArithmetic ==
  [][/\ call'.op = "strengthen_connection" =>
          /\ call'.edge \in DOMAIN node_connections'
          /\ node_connections'[call'.edge].weight =
               WeightOf(node_connections, call'.edge) + 1
          /\ call'.ret = node_connections'[call'.edge].weight
     /\ call'.op = "weaken_connection" =>
          /\ call'.edge \in DOMAIN node_connections'
          /\ node_connections'[call'.edge].weight =
               (IF WeightOf(node_connections, call'.edge) >= 1
                  THEN WeightOf(node_connections, call'.edge) - 1 ELSE 0)
          /\ call'.ret = node_connections'[call'.edge].weight]_vars

\* three strengthens then one weaken of an edge give 2
C17_Witness ==
  /\ call.op = "weaken_connection"
  /\ call.ret = 2
  /\ node_connections[call.edge].weight = 2
  /\ node_connections[call.edge].success_count = 3
  /\ node_connections[call.edge].failure_count = 1

\* C18: no edge has a negative weight, and a weaken of an edge of weight 0
\* leaves its weight 0.
C18_WeightNeverNegative ==
  /\ [](\A e \in DOMAIN node_connections : node_connections[e].weight >= 0)
  /\ [][(call'.op = "weaken_connection" /\ call'.edge \in DOMAIN node_connections
           /\ node_connections[call'.edge].weight = 0) =>
          node_connections'[call'.edge].weight = 0]_vars

\* an edge that was only ever weakened, more than once
C18_Witness ==
  /\ call.op = "weaken_connection"
  /\ node_connections[call.edge].weight = 0
  /\ node_connections[call.edge].success_count = 0
  /\ node_connections[call.edge].failure_count >= 2

\* C19: activation_count = success_count + failure_count on every edge; a
\* strengthen adds 1 to activation_count and success_count only, a weaken
\* adds 1 to activation_count and failure_count only.
C19_ActivationsAreSuccessesPlusFailures ==
  /\ [](\A e \in DOMAIN node_connections :
          node_connections[e].activation_count =
            node_connections[e].success_count + node_connections[e].failure_count)
  /\ [][/\ call'.op = "strengthen_connection" =>
             CountsOf(node_connections', call'.edge) =
               <<CountsOf(node_connections, call'.edge)[1] + 1,
                 CountsOf(node_connections, call'.edge)[2] + 1,
                 CountsOf(node_connections, call'.edge)[3]>>
        /\ call'.op = "weaken_connection" =>
             CountsOf(node_connections', call'.edge) =
               <<CountsOf(node_connections, call'.edge)[1] + 1,
                 CountsOf(node_connections, call'.edge)[2],
                 CountsOf(node_connections, call'.edge)[3] + 1>>
        /\ call'.op \in {"strengthen_connection", "weaken_connection"} =>
             \A e \in DOMAIN node_connections \ {call'.edge} :
               e \in DOMAIN node_connections'
                 /\ node_connections'[e] = node_connections[e]]_vars

\* an edge that was strengthened and weakened, after a prune took another edge
C19_Witness ==
  /\ call.op \in {"strengthen_connection", "weaken_connection"}
  /\ node_connections[call.edge].success_count >= 1
  /\ node_connections[call.edge].failure_count >= 1
  /\ Cardinality(DOMAIN node_connections) = 2

\* C20: prune_weak_connections(threshold) deletes exactly the edges of
\* weight <= threshold, returns how many it deleted and leaves every other
\* edge as it was.
C20_PruneDeletesWeakOnly ==
  [][call'.op = "prune_weak_connections" =>
       /\ DOMAIN node_connections' =
            {e \in DOMAIN node_connections :
               node_connections[e].weight > call'.threshold}
       /\ call'.ret =
            Cardinality(DOMAIN node_connections)
              - Cardinality(DOMAIN node_connections')
       /\ \A e \in DOMAIN node_connections' :
            node_connections'[e] = node_connections[e]]_vars

\* a prune at threshold 0 deleted an edge and left one of positive weight
C20_Witness ==
  /\ call.op = "prune_weak_connections"
  /\ call.threshold = 0
  /\ call.ret = 1
  /\ Cardinality(DOMAIN node_connections) = 1

\* ------------------------------------------------------------------ monitor reads
\* largest limit get_recent_events is called with
MaxLimit == 2

\* GovernanceMonitor.get_failure_streak()
GetFailureStreak ==
  /\ call' = [op |-> "get_failure_streak", ret |-> get_failure_streak(Monitor)]
  /\ UNCHANGED <<memoryVars, registryVars, weightVars, rollbackVars>>

\* GovernanceMonitor.get_recent_events(limit)
GetRecentEvents ==
  \E limit \in 0..MaxLimit :
    /\ call' = [op |-> "get_recent_events", limit |-> limit,
                ret |-> get_recent_events(Monitor, limit)]
    /\ UNCHANGED <<memoryVars, registryVars, weightVars, rollbackVars>>

\* the monitor, reported to and read
NextGovRead == RecordFailure \/ RecordSuccess \/ GetFailureStreak \/ GetRecentEvents
SpecGovRead == InitGov /\ [][NextGovRead]_vars

\* ------------------------------------------------------------------ monitor claims
IsPrefix(s, t) == Len(s) <= Len(t) /\ \A i \in DOMAIN s : t[i] = s[i]

\* C23: the in-memory list and the durable log hold the same events in the
\* same order, also after a durable write that failed; a record_failure
\* appends its failure event, and an alert event exactly when it returns
\* true; no step changes or removes an earlier entry of either.
C23_LogsAppendOnlyAndAgree ==
  /\ [](log_file = _events)
  /\ [][/\ IsPrefix(_events, _events')
        /\ IsPrefix(log_file, log_file')
        /\ call'.op = "record_failure" =>
             /\ Len(_events') = Len(_events) + (IF call'.alerts[1] THEN 2 ELSE 1)
             /\ _events'[Len(_events) + 1].type = "memory_bus_failure"
             /\ call'.alerts[1] => _events'[Len(_events) + 2].type = "governance_alert"]_vars

\* C24: get_failure_streak and get_recent_events change neither the streak
\* nor a log; get_failure_streak returns the streak; get_recent_events(limit)
\* returns the last min(limit, number of events) events in recording order.
C24_ReadsArePure ==
  [][/\ call'.op \in {"get_failure_streak", "get_recent_events"} =>
          UNCHANGED <<_failure_streak, _events, log_file, alert_threshold>>
     /\ call'.op = "get_failure_streak" => call'.ret = _failure_streak
     /\ call'.op = "get_recent_events" =>
          /\ Len(call'.ret) <= call'.limit
          /\ Len(call'.ret) = (IF call'.limit < Len(_events)
                                 THEN call'.limit ELSE Len(_events))
          /\ \A i \in DOMAIN call'.ret :
               call'.ret[i] = _events[Len(_events) - Len(call'.ret) + i]]_vars

\* ------------------------------------------------------------------ more bus claims
\* C28: a write with embedding that succeeds leaves the written path with an
\* index entry under its key that holds the content written, and leaves every
\* index entry that was written for another path in the index as it was.
C28_PathsDoNotInterfere ==
  [][(call'.op = "write" /\ call'.exc = NoExc /\ call'.embed) =>
       /\ \E i \in DOMAIN vector_store' :
            /\ vector_store'[i].doc_id = DocIdOf(call')
            /\ vector_store'[i].content = call'.content
       /\ \A i \in DOMAIN vector_store :
            vector_store[i].metadata.path # call'.path =>
              \E j \in DOMAIN vector_store' : vector_store'[j] = vector_store[i]]_vars

\* C29: no two hits of one read have the same path.
C29_ReadHitsAreDistinct ==
  call.op = "read" =>
    \A i, j \in DOMAIN call.hits :
      i # j => call.hits[i].path # call.hits[j].path

\* ------------------------------------------------------------------ weight store histories
\* HebbianWeightManager.get_weight(origin, target)
GetWeight ==
  \E edge \in Edges :
    /\ call' = [op |-> "get_weight", edge |-> edge,
                ret |-> get_weight(node_connections, edge)]
    /\ UNCHANGED <<memoryVars, registryVars, weightVars, rollbackVars>>

\* one caller that strengthens, weakens, prunes and reads
NextWeights == Strengthen \/ Weaken \/ Prune \/ GetWeight
SpecWeights == InitHebbian /\ [][NextWeights]_vars

\* the counters the pair had when it was last written, 0 when it never was
LastCountsOf(e) == IF e \in DOMAIN last_counts THEN last_counts[e] ELSE <<0, 0, 0>>

\* C21: whenever a pair has a row, each of its three counters is at least
\* what it was after the last strengthen or weaken on that pair, whatever
\* prunes and reads came in between.
C21_CountersNeverDecrease ==
  [][\A e \in DOMAIN node_connections' :
       \A k \in 1..3 : CountsOf(node_connections', e)[k] >= LastCountsOf(e)[k]]_vars

\* ------------------------------------------------------------------ interleaved callers
\* the calls of an edge that have read and not yet written
InFlight(edge) ==
  Cardinality({c \in Callers : callers[c].pc = "write" /\ callers[c].edge = edge})

\* the edge the interleaved callers work on
RaceEdges == {<<"agent", "t1">>}

\* line 106 / line 166: a caller enters strengthen_connection or
\* weaken_connection and reads the current weight
CallRead ==
  \E c \in Callers, op \in {"strengthen_connection", "weaken_connection"},
     edge \in RaceEdges :
    /\ callers[c] = Idle
    /\ Activations(node_connections, edge) + InFlight(edge) < MaxActivations
    /\ callers' = [callers EXCEPT ![c] =
                     [pc |-> "write", op |-> op, edge |-> edge,
                      current_weight |-> get_weight(node_connections, edge)]]
    /\ call' = [op |-> "get_weight", edge |-> edge,
                ret |-> get_weight(node_connections, edge)]
    /\ UNCHANGED <<memoryVars, registryVars, node_connections, last_counts,
                   rollbackVars>>

\* lines 109-152 / 169-212: the caller runs its statement on the table as it
\* is now, commits and returns the weight it computed from its read
CallWrite ==
  \E c \in Callers :
    /\ callers[c].pc = "write"
    /\ \E r \in {IF callers[c].op = "strengthen_connection"
                   THEN strengthen_write(node_connections, callers[c].edge,
                                         callers[c].current_weight)
                   ELSE weaken_write(node_connections, callers[c].edge,
                                     callers[c].current_weight)} :
         /\ node_connections' = r.conns
         /\ last_counts' = PutRow(last_counts, callers[c].edge,
                                  CountsOfRow(r.conns[callers[c].edge]))
         /\ call' = [op |-> callers[c].op, edge |-> callers[c].edge,
                     ret |-> r.ret, caller |-> c]
    /\ callers' = [callers EXCEPT ![c] = Idle]
    /\ UNCHANGED <<memoryVars, registryVars, rollbackVars>>

\* two callers that strengthen and weaken
NextRace == CallRead \/ CallWrite
SpecRace == InitHebbian /\ [][NextRace]_vars

\* two callers that strengthen and weaken, and prunes between their steps
NextRacePrune == CallRead \/ CallWrite \/ Prune
SpecRacePrune == InitHebbian /\ [][NextRacePrune]_vars

\* C22: with two callers whose reads and writes interleave, every strengthen
\* that commits leaves the stored weight one above what it was just before
\* the write and activation_count and success_count one above, every weaken
\* the weight one below (not under 0) and activation_count and failure_count
\* one above; so an edge that was only strengthened n times holds weight n and
\* counters n.
C22_NoLostUpdate ==
  /\ [](\A e \in DOMAIN node_connections :
          node_connections[e].failure_count = 0 =>
            /\ node_connections[e].weight = node_connections[e].success_count
            /\ node_connections[e].activation_count = node_connections[e].success_count)
  /\ [][/\ call'.op = "strengthen_connection" =>
             /\ WeightOf(node_connections', call'.edge)
                  = WeightOf(node_connections, call'.edge) + 1
             /\ CountsOf(node_connections', call'.edge) =
                  <<CountsOf(node_connections, call'.edge)[1] + 1,
                    CountsOf(node_connections, call'.edge)[2] + 1,
                    CountsOf(node_connections, call'.edge)[3]>>
        /\ call'.op = "weaken_connection" =>
             /\ WeightOf(node_connections', call'.edge)
                  = (IF WeightOf(node_connections, call'.edge) >= 1
                       THEN WeightOf(node_connections, call'.edge) - 1 ELSE 0)
             /\ CountsOf(node_connections', call'.edge) =
                  <<CountsOf(node_connections, call'.edge)[1] + 1,
                    CountsOf(node_connections, call'.edge)[2],
                    CountsOf(node_connections, call'.edge)[3] + 1>>]_vars

\* two strengthens of one edge that both read before either wrote: the second
\* to commit returns 1 and the row holds 2
C22_Witness ==
  /\ call.op = "strengthen_connection"
  /\ call.ret = 1
  /\ node_connections[call.edge].weight = 2
  /\ node_connections[call.edge].success_count = 2
  /\ node_connections[call.edge].failure_count = 0

\* C27: the weight a strengthen or weaken returns is the weight its edge holds
\* right after its own write, whatever the other caller and prunes did
\* between its read and its write.
C27_ReturnedIsStored ==
  [][call'.op \in {"strengthen_connection", "weaken_connection"} =>
       call'.ret = WeightOf(node_connections', call'.edge)]_vars
\* ------------------------------------------------------------------ RollbackManager
\* most create_checkpoint calls of a run
MaxCreated == 3

\* largest max_checkpoints a manager is made with
MaxCheckpoints == 2

\* seconds that pass during a run
MaxClock == 1

\* most rollback_to calls of a run
MaxRollbacks == 1

\* labels and states handed to create_checkpoint
Labels == {"a", "b"}
States == {"s1", "s2"}

\* line 94: f"{label}_{int(time.time())}", kept as the pair it is made of
CheckpointId(label, now) == <<label, now>>

\* lines 256-264: while the history is over the limit, pop its first id and
\* unlink that id's file if it exists.  (The index file written at line 264 is
\* read by __init__ only.)
RECURSIVE _enforce_retention(_, _, _)
_enforce_retention(history, files, max) ==
  IF Len(history) > max
    THEN _enforce_retention(Tail(history),
                            [i \in DOMAIN files \ {Head(history)} |-> files[i]], max)
    ELSE [history |-> history, files |-> files]

\* lines 75-124: the file <id>.json is written (over a former one of that
\* name), the id is appended to the history, retention is enforced
create_checkpoint(history, files, max, label, state, now) ==
  LET checkpoint_id == CheckpointId(label, now)
      written == [i \in DOMAIN files \cup {checkpoint_id} |->
                    IF i = checkpoint_id THEN state ELSE files[i]]
      kept == _enforce_retention(Append(history, checkpoint_id), written, max)
  IN  [history |-> kept.history, files |-> kept.files, ret |-> checkpoint_id]

FileNotFoundExc == "FileNotFoundError"

\* lines 126-164
rollback_to(files, log, checkpoint_id) ==
  IF checkpoint_id \notin DOMAIN files
    THEN [log |-> log, exc |-> FileNotFoundExc, ret |-> None]
    ELSE [log |-> Append(log, checkpoint_id), exc |-> NoExc,
          ret |-> files[checkpoint_id]]

\* a manager over an empty checkpoint_dir
InitRollback ==
  /\ InitState
  /\ search_dirs = <<>>
  /\ governance_monitor = FALSE
  /\ alert_threshold = DefaultAlertThreshold
  /\ max_checkpoints \in 0..MaxCheckpoints

\* RollbackManager.create_checkpoint(label, state)
CreateCheckpoint ==
  \E label \in Labels, state \in States :
    /\ Len(created) < MaxCreated
    /\ \E r \in {create_checkpoint(checkpoint_history, checkpoint_files,
                                   max_checkpoints, label, state, clock)} :
         /\ checkpoint_history' = r.history
         /\ checkpoint_files' = r.files
         /\ created' = Append(created, r.ret)
         /\ call' = [op |-> "create_checkpoint", label |-> label, ret |-> r.ret]
    /\ UNCHANGED <<memoryVars, registryVars, weightVars, max_checkpoints, clock,
                   _rollback_log>>

\* a second passes
Tick ==
  /\ clock < MaxClock
  /\ clock' = clock + 1
  /\ call' = [op |-> "tick"]
  /\ UNCHANGED <<memoryVars, registryVars, weightVars, checkpoint_history,
                 checkpoint_files, max_checkpoints, created, _rollback_log>>

\* RollbackManager.rollback_to(checkpoint_id), for an id create_checkpoint returned
RollbackTo ==
  \E k \in DOMAIN created :
    /\ Len(_rollback_log) < MaxRollbacks
    /\ \E r \in {rollback_to(checkpoint_files, _rollback_log, created[k])} :
         /\ _rollback_log' = r.log
         /\ call' = [op |-> "rollback_to", checkpoint_id |-> created[k],
                     exc |-> r.exc, ret |-> r.ret]
    /\ UNCHANGED <<memoryVars, registryVars, weightVars, checkpoint_history,
                   checkpoint_files, max_checkpoints, clock, created>>

NextRollback == CreateCheckpoint \/ Tick \/ RollbackTo
SpecRollback == InitRollback /\ [][NextRollback]_vars

\* the last n elements of s (all of s when it has fewer)
LastN(s, n) ==
  IF n >= Len(s) THEN s ELSE SubSeq(s, Len(s) - n + 1, Len(s))

\* C25: the history never holds more than max_checkpoints ids; it is the last
\* max_checkpoints ids create_checkpoint returned, in that order; every id in it
\* has its file; and rollback_to of an id in it does not raise.
C25_RetentionKeepsLastN ==
  /\ [](Len(checkpoint_history) <= max_checkpoints)
  /\ [](checkpoint_history = LastN(created, max_checkpoints))
  /\ [](\A i \in DOMAIN checkpoint_history :
          checkpoint_history[i] \in DOMAIN checkpoint_files)
  /\ [][(/\ call'.op = "rollback_to"
         /\ \E i \in DOMAIN checkpoint_history :
              checkpoint_history[i] = call'.checkpoint_id) =>
          call'.exc = NoExc]_vars
\* ------------------------------------------------------------------ more text
\* hay.find(needle) + 1: where needle first starts in hay, 0 when nowhere
IndexOf(hay, needle) ==
  LET hits == {i \in 1..(Len(hay) - Len(needle) + 1) :
                 \A j \in 1..Len(needle) : hay[i + j - 1] = needle[j]}
  IN  IF hits = {} THEN 0 ELSE CHOOSE i \in hits : \A k \in hits : i <= k

\* s.replace(a, b) for single characters a and b
Replace(s, a, b) == [i \in DOMAIN s |-> IF s[i] = a THEN b ELSE s[i]]

IsSpace(ch) == ch \in {" ", "LF", "CR"}
IsLetter(ch) == LowerOf(ch) # ch \/ UpperOf(ch) # ch

RECURSIVE LStrip(_)
LStrip(s) == IF s # <<>> /\ IsSpace(Head(s)) THEN LStrip(Tail(s)) ELSE s

RECURSIVE RStrip(_)
RStrip(s) ==
  IF s # <<>> /\ IsSpace(s[Len(s)]) THEN RStrip(SubSeq(s, 1, Len(s) - 1)) ELSE s

\* str.strip()
Strip(s) == RStrip(LStrip(s))

\* s.split("\n")
RECURSIVE SplitLines(_)
SplitLines(s) ==
  LET k == IndexOf(s, <<"LF">>)
  IN  IF k = 0 THEN <<s>>
      ELSE <<SubSeq(s, 1, k - 1)>> \o SplitLines(SubSeq(s, k + 1, Len(s)))

\* "\n".join(lines)
RECURSIVE JoinLines(_)
JoinLines(lines) ==
  IF lines = <<>> THEN <<>>
  ELSE IF Len(lines) = 1 THEN lines[1]
  ELSE lines[1] \o <<"LF">> \o JoinLines(Tail(lines))

\* str.title(): a letter that follows no letter is upper case, every other
\* letter lower case
Title(s) ==
  [i \in DOMAIN s |->
     IF i = 1 \/ ~IsLetter(s[i - 1]) THEN UpperOf(s[i]) ELSE LowerOf(s[i])]

\* the strings the registry and the Weight Manager are keyed by, as text
TextOf(str) ==
  CASE str = "A" -> <<"A">> [] str = "B" -> <<"B">> [] str = "C" -> <<"C">>
    [] str = "x" -> <<"x">> [] str = "y" -> <<"y">>
    [] str = "t1" -> <<"t", "1">> [] str = "t2" -> <<"t", "2">>
    [] str = "auto_generated" -> <<"a", "u", "t", "o", "_", "g", "e", "n", "e", "r", "a", "t",
     "e", "d">>
    [] str = "1" -> <<"1">> [] str = "2" -> <<"2">> [] str = "3" -> <<"3">>

\* str(n) for the lengths of result dictionaries
StrOfLen(n) == CASE n = 1 -> <<"1">> [] n = 2 -> <<"2">> [] n = 3 -> <<"3">>

\* ------------------------------------------------------------------ ObsidianParser
Dashes == <<"-", "-", "-">>
StatusKey == <<"s", "t", "a", "t", "u", "s", ":">>
StatusPrefix == <<"s", "t", "a", "t", "u", "s", ":", " ">>
FrontOpen == <<"-", "-", "-", "LF">>
FrontClose == <<"LF", "-", "-", "-", "LF">>
TextCompleted == <<"c", "o", "m", "p", "l", "e", "t", "e", "d">>
TextFailed == <<"f", "a", "i", "l", "e", "d">>
TextPending == <<"p", "e", "n", "d", "i", "n", "g">>

IndexErrorExc == "IndexError"

\* the status line put in place of every line that starts with "status:"
WithStatusLine(lines, new_status) ==
  [i \in DOMAIN lines |->
     IF StartsWith(lines[i], StatusKey) THEN StatusPrefix \o new_status ELSE lines[i]]

\* update_status_in_note(original_content, new_status, task_id): a note that
\* starts with "---" is split at the first two "---" (parts[2] does not exist
\* when there is no second one), the front matter and the body are stripped,
\* the status line is replaced or appended; any other note gets a front
\* matter prepended
update_status_in_note(original_content, new_status) ==
  IF StartsWith(original_content, Dashes)
    THEN LET rest == SubSeq(original_content, 4, Len(original_content))
             k == IndexOf(rest, Dashes)
         IN  IF k = 0
               THEN [ret |-> None, exc |-> IndexErrorExc]
               ELSE LET front_matter == Strip(SubSeq(rest, 1, k - 1))
                        main_content == Strip(SubSeq(rest, k + 3, Len(rest)))
                        lines == SplitLines(front_matter)
                        status_found ==
                          \E i \in DOMAIN lines : StartsWith(lines[i], StatusKey)
                        new_front_matter_lines ==
                          IF status_found
                            THEN WithStatusLine(lines, new_status)
                            ELSE Append(lines, StatusPrefix \o new_status)
                    IN  [ret |-> FrontOpen \o JoinLines(new_front_matter_lines)
                                   \o FrontClose \o main_content,
                         exc |-> NoExc]
    ELSE [ret |-> FrontOpen \o StatusPrefix \o new_status \o FrontClose
                    \o original_content,
          exc |-> NoExc]

\* ------------------------------------------------------------------ ObsidianGenerator
\* a dictionary of strings is the sequence of its [key, value] items in
\* insertion order
HasKey(d, key) == \E i \in DOMAIN d : d[i].key = key

\* d.get(key, default)
Get(d, key, default) ==
  IF HasKey(d, key) THEN d[CHOOSE i \in DOMAIN d : d[i].key = key].value ELSE default

ReportHead1 == <<"-", "-", "-", "LF", "t", "a", "s", "k", "_", "i", "d", ":", " ">>
ReportHead2 == <<"LF", "a", "g", "e", "n", "t", ":", " ">>
ReportHead3 == <<"LF", "t", "i", "m", "e", "s", "t", "a", "m", "p", ":", " ">>
ReportHead4 ==
  <<"LF", "s", "t", "a", "t", "u", "s", ":", " ", "c", "o", "m", "p", "l", "e", "t", "e", "d",
     "LF", "t", "a", "g", "s", ":", " ", "[", "\"", "a", "g", "e", "n", "t", "_", "r", "e", "p", "o", "r", "t", "\"", ",", " ", "\"">>
ReportHead5 == <<"\"", "]", "LF", "-", "-", "-", "LF", "LF", "#", " ">>
ReportTitle1 ==
  <<"A", "g", "e", "n", "t", " ", "R", "e", "p", "o", "r", "t", ":", " ">>
ReportTitle2 == <<" ", "-", " ">>
ReportBody1 ==
  <<"LF", "LF", "#", "#", " ", "S", "u", "m", "m", "a", "r", "y", " ", "o", "f", " ", "F", "i",
     "n", "d", "i", "n", "g", "s", "LF", "LF">>
ReportBody2 ==
  <<"LF", "LF", "#", "#", " ", "K", "e", "y", " ", "D", "a", "t", "a", "/", "O", "u", "t", "p",
     "u", "t", "s", "LF", "LF">>
NoSummary ==
  <<"N", "o", " ", "s", "u", "m", "m", "a", "r", "y", " ", "p", "r", "o", "v", "i", "d", "e",
     "d", ".">>
ItemOpen == <<"-", " ", "*", "*">>
ItemMid == <<"*", "*", ":", " ">>
ReportTail ==
  <<"LF", "#", "#", " ", "N", "e", "x", "t", " ", "S", "t", "e", "p", "s", " ", "(", "O", "p",
     "t", "i", "o", "n", "a", "l", ")", "LF", "LF", "-", " ", "[", " ", "]", " ", " ", "R", "e", "v", "i", "e", "w", " ", "t", "h", "i", "s", " ", "r", "e", "p", "o", "r", "t", "LF", "-", " ", "[", " ", "]", " ", " ", "D", "i", "s", "c", "u", "s", "s", " ", "f", "i", "n", "d", "i", "n", "g", "s", " ", "w", "i", "t", "h", " ", "t", "e", "a", "m", "LF">>
KeySummary == <<"s", "u", "m", "m", "a", "r", "y">>
KeyStatus == <<"s", "t", "a", "t", "u", "s">>

\* lines 16-26 for values that are strings: one line per item but the summary
RECURSIVE ReportItems(_)
ReportItems(results) ==
  IF results = <<>> THEN <<>>
  ELSE (IF Head(results).key = KeySummary THEN <<>>
        ELSE ItemOpen \o Title(Replace(Head(results).key, "_", " ")) \o ItemMid
               \o Head(results).value \o <<"LF">>)
       \o ReportItems(Tail(results))

\* generate_agent_report(agent_name, task_id, results); the timestamp is left
\* empty
generate_agent_report(agent_name, task_id, results) ==
  ReportHead1 \o task_id \o ReportHead2 \o agent_name \o ReportHead3
    \o ReportHead4 \o Replace(Lower(agent_name), " ", "_") \o ReportHead5
    \o ReportTitle1 \o agent_name \o ReportTitle2 \o task_id
    \o ReportBody1 \o Get(results, KeySummary, NoSummary) \o ReportBody2
    \o ReportItems(results) \o ReportTail

NoteHead1 == <<"-", "-", "-", "LF", "t", "a", "s", "k", "_", "i", "d", ":", " ">>
NoteHead2 == <<"LF", "a", "g", "e", "n", "t", ":", " ">>
NoteHead3 == <<"LF", "s", "t", "a", "t", "u", "s", ":", " ">>
NoteCapability ==
  <<"r", "e", "q", "u", "i", "r", "e", "d", "_", "c", "a", "p", "a", "b", "i", "l", "i", "t",
     "y", ":", " ">>
NoteCapabilityEnd == <<"\\", "n">>
NoteTags == <<"t", "a", "g", "s", ":", " ">>
NoteHead6 == <<"LF", "-", "-", "-", "LF", "LF", "#", " ">>
AutoGenId == <<"A", "U", "T", "O", "_", "G", "E", "N", "_", "I", "D">>
GeneralAgent == <<"g", "e", "n", "e", "r", "a", "l">>
DefaultTitle ==
  <<"N", "e", "w", " ", "A", "g", "e", "n", "t", " ", "T", "a", "s", "k">>
TagsOpen ==
  <<"[", "'", "a", "g", "e", "n", "t", "_", "t", "a", "s", "k", "'", ",", " ", "'">>
TagsClose == <<"'", "]">>
KeyTitle == <<"t", "i", "t", "l", "e">>
KeyAgent == <<"a", "g", "e", "n", "t">>
KeyTaskId == <<"t", "a", "s", "k", "_", "i", "d">>
KeyCapability ==
  <<"r", "e", "q", "u", "i", "r", "e", "d", "_", "c", "a", "p", "a", "b", "i", "l", "i", "t", "y">>

\* generate_task_note(task_data) for task data without tags, context,
\* keywords, target and subtasks.  The capability line ends with the two
\* characters backslash and n of the nested literal '...\\n', not with a line
\* feed, so the tags follow on the same line
generate_task_note(task_data) ==
  LET title == Get(task_data, KeyTitle, DefaultTitle)
      agent == Get(task_data, KeyAgent, GeneralAgent)
      required_capability == Get(task_data, KeyCapability, None)
      status == Get(task_data, KeyStatus, TextPending)
      tags == TagsOpen \o Replace(Lower(agent), " ", "_") \o TagsClose
  IN  NoteHead1 \o Get(task_data, KeyTaskId, AutoGenId)
        \o NoteHead2 \o agent
        \o NoteHead3 \o status \o <<"LF">>
        \o (IF required_capability # None /\ required_capability # <<>>
              THEN NoteCapability \o required_capability \o NoteCapabilityEnd
              ELSE <<>>)
        \o NoteTags \o tags
        \o NoteHead6 \o title \o <<"LF", "LF">>
\* ------------------------------------------------------------------ Orchestrator
AGENT_INPUT_DIR == <<"A", "g", "e", "n", "t", " ", "I", "n", "p", "u", "t", "s">>
AGENT_OUTPUT_DIR == <<"A", "g", "e", "n", "t", " ", "O", "u", "t", "p", "u", "t", "s">>
ReportInfix == <<"_", "R", "e", "p", "o", "r", "t", "_">>
DotMd == <<".", "m", "d">>

\* what the orchestrator's stores hold while one of its calls runs: the two
\* stores, the monitor and the two counts kept about the bus
Stores == [vs |-> vector_store, vault |-> vault, mon |-> Monitor,
           since |-> since_success, failed |-> failed_writes]

\* the row of a doc_id with the caller's metadata added to {"path": ...}
\* (memory_bus.py lines 114-116)
SetMetadata(vs, doc_id, metadata) ==
  [i \in DOMAIN vs |->
     IF vs[i].doc_id = doc_id
       THEN [vs[i] EXCEPT !.metadata = metadata @@ vs[i].metadata]
       ELSE vs[i]]

\* self.memory_bus.write_note_with_embedding(relative_path, content,
\* metadata=metadata) on the orchestrator's bus, which has a monitor
bus_write(st, threshold, relative_path, content, metadata, f) ==
  LET Written(w) ==
        [st |-> [vs |-> IF f.upsert THEN w.vs
                        ELSE SetMetadata(w.vs, _normalize_doc_id(relative_path), metadata),
                 vault |-> w.vault,
                 mon |-> w.mon,
                 since |-> CountSince(st.since, w.gov),
                 failed |-> IF w.exc = NoExc THEN 0
                            ELSE IF w.failed = "file.write" THEN st.failed + 1
                            ELSE st.failed],
         exc |-> w.exc]
  IN  Written(write_note_with_embedding(st.vs, st.vault, TRUE, st.mon, threshold,
                                        relative_path, content, TRUE, f))

\* the bus write of a note and, when it raised, obs_manager.write_note of the
\* same note, whose exception is the caller's
WriteOrFallBack(st, threshold, relative_path, content, metadata, f, fallback) ==
  LET FellBack(w, d) ==
        [st |-> [w.st EXCEPT !.vault = d.vault], exc |-> d.exc,
         wrote |-> d.exc = NoExc, fell_back |-> TRUE]
      Written(w) ==
        IF w.exc = NoExc
          THEN [st |-> w.st, exc |-> NoExc, wrote |-> TRUE, fell_back |-> FALSE]
          ELSE FellBack(w, TryWriteNote(w.st.vault, relative_path, content, fallback))
  IN  Written(bus_write(st, threshold, relative_path, content, metadata, f))

\* update_task_status_in_obsidian(relative_note_path, new_status, task_id)
update_task_status_in_obsidian(st, threshold, relative_note_path, new_status, task_id, f, fallback) ==
  LET Updated(u) ==
        IF u.exc # NoExc
          THEN [st |-> st, exc |-> u.exc, wrote |-> FALSE, fell_back |-> FALSE]
          ELSE WriteOrFallBack(st, threshold, relative_note_path, u.ret,
                               [task_id |-> task_id, status |-> new_status],
                               f, fallback)
      Loaded(original_content) ==
        IF ~Truthy(original_content)
          THEN [st |-> st, exc |-> NoExc, wrote |-> FALSE, fell_back |-> FALSE]
          ELSE Updated(update_status_in_note(original_content, new_status))
  IN  Loaded(read_note(st.vault, relative_note_path))

\* _resolve_required_capability(task_context): the capability given, or the
\* first capability of the agent the task names
_resolve_required_capability(live, task_data) ==
  IF Truthy(Get(task_data, KeyCapability, None))
    THEN Get(task_data, KeyCapability, None)
  ELSE IF Truthy(Get(task_data, KeyAgent, None))
    THEN LET named == {i \in DOMAIN live :
                         TextOf(live[i].name) = Get(task_data, KeyAgent, None)}
         IN  IF named # {} /\ (live[CHOOSE i \in named : TRUE]).capabilities # <<>>
               THEN TextOf((live[CHOOSE i \in named : TRUE]).capabilities[1])
               ELSE None
  ELSE None

\* task_data["key"] = value
SetKey(d, key, value) ==
  IF HasKey(d, key)
    THEN [i \in DOMAIN d |-> IF d[i].key = key THEN [key |-> key, value |-> value] ELSE d[i]]
    ELSE Append(d, [key |-> key, value |-> value])

\* create_new_task_in_obsidian(task_data, filename) for a filename that is given
create_new_task_in_obsidian(st, threshold, live, task_data, filename, f, fallback) ==
  LET resolved_capability == _resolve_required_capability(live, task_data)
      data == IF Truthy(resolved_capability)
                THEN SetKey(task_data, KeyCapability, resolved_capability)
                ELSE task_data
      relative_path == AGENT_INPUT_DIR \o <<"/">> \o filename
      markdown_content == generate_task_note(data)
      Written(r) ==
        [st |-> r.st, exc |-> r.exc, wrote |-> r.wrote, fell_back |-> r.fell_back,
         ret |-> IF r.exc = NoExc THEN relative_path ELSE None]
  IN  Written(WriteOrFallBack(st, threshold, relative_path, markdown_content,
                              [task_id |-> Get(data, KeyTaskId, None),
                               created_by |-> "orchestrator"],
                              f, fallback))

AgentNotRegisteredExc == "ValueError: Agent not registered with the orchestrator."
AgentRaisedExc == "agent.perform_task raised"

\* _update_hebbian_weights(agent_name, task_id, success)
_update_hebbian_weights(conns, agent_name, task_id, success) ==
  IF success
    THEN [conns |-> strengthen_connection(conns, <<agent_name, task_id>>).conns,
          reports |-> <<[op |-> "strengthen_connection", edge |-> <<agent_name, task_id>>]>>]
    ELSE [conns |-> weaken_connection(conns, <<agent_name, task_id>>).conns,
          reports |-> <<[op |-> "weaken_connection", edge |-> <<agent_name, task_id>>]>>]

\* the try block of assign_and_execute_task (lines 384-421): perform_task,
\* the report written through the bus with its exception dropped, the status
\* of the task note set to completed.  _enrich_task_with_memory only reads and
\* drops its exceptions.
TryBlock(st, threshold, agent_name, task_id, note_path, outcome, f, fallback) ==
  LET Noted(u, task_success) ==
        [st |-> u.st, exc |-> u.exc, task_success |-> task_success]
      Reported(w, task_success) ==
        IF Truthy(note_path)
          THEN Noted(update_task_status_in_obsidian(
                       w.st, threshold, note_path, TextCompleted, task_id, f, fallback),
                     task_success)
          ELSE [st |-> w.st, exc |-> NoExc, task_success |-> task_success]
      Performed(results) ==
        LET task_success == Get(results, KeyStatus, None) # TextFailed
            report_filename ==
              Replace(TextOf(agent_name), " ", "_") \o ReportInfix \o TextOf(task_id)
                \o <<"_">> \o StrOfLen(Len(results)) \o DotMd
            report_md == generate_agent_report(TextOf(agent_name), TextOf(task_id), results)
            report_path == AGENT_OUTPUT_DIR \o <<"/">> \o report_filename
        IN  Reported(bus_write(st, threshold, report_path, report_md,
                               [agent |-> agent_name, task_id |-> task_id], f),
                     task_success)
  IN  IF outcome.raised
        THEN [st |-> st, exc |-> AgentRaisedExc, task_success |-> FALSE]
        ELSE Performed(outcome.results)

\* the except block (lines 423-442): the task counts as failed and the status
\* of the task note is set to failed; an exception of that update leaves the call
ExceptBlock(st, threshold, task_id, note_path, g, fallback) ==
  LET Noted(u) == [st |-> u.st, exc |-> u.exc]
  IN  IF Truthy(note_path)
        THEN Noted(update_task_status_in_obsidian(st, threshold, note_path, TextFailed,
                                                  task_id, g, fallback))
        ELSE [st |-> st, exc |-> NoExc]

\* assign_and_execute_task(agent_name, task_context, original_task_note_path)
\* for a task_context that holds task_id; f and g are what happens to the store
\* writes made inside the try block and inside the except block
assign_and_execute_task(st, conns, live, threshold, agent_name, task_id, note_path, outcome, f, f_fallback, g, g_fallback) ==
  LET Weighed(left, h, status) ==
        [st |-> left, conns |-> h.conns, exc |-> NoExc, reports |-> h.reports,
         status |-> status]
      Handled(e) ==
        IF e.exc # NoExc
          THEN [st |-> e.st, conns |-> conns, exc |-> e.exc,
                reports |-> <<>>, status |-> ""]
          ELSE Weighed(e.st,
                       _update_hebbian_weights(conns, agent_name, task_id, FALSE),
                       TextFailed)
      Tried(t) ==
        IF t.exc = NoExc
          THEN Weighed(t.st,
                       _update_hebbian_weights(conns, agent_name, task_id,
                                               t.task_success),
                       IF HasKey(outcome.results, KeyStatus)
                         THEN Get(outcome.results, KeyStatus, None)
                         ELSE None)
          ELSE Handled(ExceptBlock(t.st, threshold, task_id, note_path, g, g_fallback))
  IN  IF ~IsLive(live, agent_name)
        THEN [st |-> st, conns |-> conns, exc |-> AgentNotRegisteredExc,
              reports |-> <<>>, status |-> ""]
        ELSE Tried(TryBlock(st, threshold, agent_name, task_id, note_path, outcome,
                            f, f_fallback))

\* ------------------------------------------------------------------ orchestrator calls
\* the three agents _register_agents registers, under one-letter names
OrchAgentA == [name |-> "A", capabilities |-> <<"x">>]
OrchAgentB == [name |-> "B", capabilities |-> <<"y">>]
OrchAgentC == [name |-> "C", capabilities |-> <<"y">>]

Registered ==
  register_agent(
    register_agent(register_agent([agents |-> <<>>, scores |-> <<>>, rows |-> <<>>],
                                  OrchAgentA, FALSE).reg,
                   OrchAgentB, FALSE).reg,
    OrchAgentC, FALSE).reg

\* Orchestrator.__init__: empty stores, a bus with a default monitor over the
\* two agent folders, a registry the agents were registered with
InitOrch ==
  /\ InitStores
  /\ agents = Registered.agents
  /\ scores = Registered.scores
  /\ store = Registered.rows
  /\ max_checkpoints = DEFAULT_MAX_CHECKPOINTS
  /\ search_dirs = <<AGENT_INPUT_DIR, AGENT_OUTPUT_DIR>>
  /\ governance_monitor = TRUE
  /\ alert_threshold = DefaultAlertThreshold

\* most events the monitor may hold before further failing orchestrator writes
\* are cut off
MaxOrchEvents == 1

\* most tasks run for one agent and task id
MaxRuns == 1

\* a registered agent and a name nobody registered
OrchAgentNames == {"A", "Z"}
TaskIds == {"t1"}

FileT == <<"t", ".", "m", "d">>
TaskNotePath == AGENT_INPUT_DIR \o <<"/">> \o FileT
NotePaths == {None, TaskNotePath}

TextSuccess == <<"s", "u", "c", "c", "e", "s", "s">>
TextOk == <<"o", "k">>

\* what perform_task does: it raises, or returns a dictionary with status
\* success, with status failed or without a status
Outcomes ==
  {[raised |-> TRUE],
   [raised |-> FALSE,
    results |-> <<[key |-> KeyStatus, value |-> TextSuccess],
                  [key |-> KeySummary, value |-> TextOk]>>],
   [raised |-> FALSE,
    results |-> <<[key |-> KeyStatus, value |-> TextFailed],
                  [key |-> KeySummary, value |-> TextOk]>>],
   [raised |-> FALSE,
    results |-> <<[key |-> KeySummary, value |-> TextOk]>>]}

\* what happens to the store writes of a bus write: nothing, the upsert
\* raises, or write_note raises before it touches the file
OrchFaults ==
  {NoFault, [NoFault EXCEPT !.upsert = TRUE], [NoFault EXCEPT !.write = "unopened"]}

\* what happens to the obs_manager.write_note the orchestrator falls back to
Fallbacks == {"ok", "unopened"}

\* task data handed to create_new_task_in_obsidian
TaskDatas ==
  {<<>>,
   <<[key |-> KeyTaskId, value |-> <<"t", "1">>],
     [key |-> KeyCapability, value |-> <<"x">>]>>}

\* the stores and the monitor become what the call left
StoresBecome(st) ==
  /\ vector_store' = st.vs
  /\ vault' = st.vault
  /\ _failure_streak' = st.mon.streak
  /\ _events' = st.mon.events
  /\ log_file' = st.mon.log
  /\ since_success' = st.since
  /\ failed_writes' = st.failed

\* a fault is the outcome of a write the call reaches: nothing is drawn for a
\* write that does not run
Reaches(agent_name, note_path, outcome, f, f_fallback, g, g_fallback) ==
  /\ (agent_name = "Z" \/ outcome.raised) => f = NoFault
  /\ (f = NoFault \/ note_path = None) => f_fallback = "ok"
  /\ (agent_name = "Z" \/ note_path = None) => g = NoFault
  /\ (~outcome.raised /\ f_fallback = "ok") => g = NoFault
  /\ g = NoFault => g_fallback = "ok"

\* Orchestrator.assign_and_execute_task(agent_name, {"task_id": task_id}, note_path)
AssignAndExecute ==
  \E agent_name \in OrchAgentNames, task_id \in TaskIds, note_path \in NotePaths,
     outcome \in Outcomes, f \in OrchFaults, g \in OrchFaults,
     f_fallback \in Fallbacks, g_fallback \in Fallbacks :
    /\ Activations(node_connections, <<agent_name, task_id>>) < MaxRuns
    /\ Reaches(agent_name, note_path, outcome, f, f_fallback, g, g_fallback)
    /\ \E r \in {assign_and_execute_task(Stores, node_connections, agents,
                                         alert_threshold, agent_name, task_id,
                                         note_path, outcome, f, f_fallback,
                                         g, g_fallback)} :
         /\ Len(r.st.mon.events) <= MaxOrchEvents
         /\ r.st.failed <= MaxFailures
         /\ StoresBecome(r.st)
         /\ node_connections' = r.conns
         /\ last_counts' = IF r.reports = <<>> THEN last_counts
                           ELSE PutRow(last_counts, <<agent_name, task_id>>,
                                       CountsOfRow(r.conns[<<agent_name, task_id>>]))
         /\ call' = [op |-> "assign_and_execute_task", agent_name |-> agent_name,
                     task_id |-> task_id, path |-> note_path,
                     raised |-> outcome.raised,
                     result_status |-> IF outcome.raised THEN None
                                       ELSE Get(outcome.results, KeyStatus, None),
                     exc |-> r.exc, reports |-> r.reports, status |-> r.status]
    /\ UNCHANGED <<search_dirs, governance_monitor, alert_threshold, registryVars,
                   callers, rollbackVars>>

\* Orchestrator.update_task_status_in_obsidian(relative_note_path, new_status, task_id)
UpdateTaskStatus ==
  \E new_status \in {TextCompleted}, task_id \in TaskIds,
     f \in OrchFaults, fallback \in Fallbacks :
    /\ f = NoFault => fallback = "ok"
    /\ \E r \in {update_task_status_in_obsidian(Stores, alert_threshold, TaskNotePath,
                                                new_status, task_id, f, fallback)} :
         /\ Len(r.st.mon.events) <= MaxOrchEvents
         /\ r.st.failed <= MaxFailures
         /\ StoresBecome(r.st)
         /\ call' = [op |-> "update_task_status_in_obsidian", path |-> TaskNotePath,
                     new_status |-> new_status, exc |-> r.exc, wrote |-> r.wrote,
                     fell_back |-> r.fell_back]
    /\ UNCHANGED <<search_dirs, governance_monitor, alert_threshold, registryVars,
                   weightVars, rollbackVars>>

\* Orchestrator.create_new_task_in_obsidian(task_data, filename), for a file
\* name the vault does not hold yet
CreateNewTask ==
  \E task_data \in TaskDatas, f \in OrchFaults, fallback \in Fallbacks :
    /\ TaskNotePath \notin DOMAIN vault
    /\ f = NoFault => fallback = "ok"
    /\ \E r \in {create_new_task_in_obsidian(Stores, alert_threshold, agents,
                                             task_data, FileT, f, fallback)} :
         /\ Len(r.st.mon.events) <= MaxOrchEvents
         /\ r.st.failed <= MaxFailures
         /\ StoresBecome(r.st)
         /\ call' = [op |-> "create_new_task_in_obsidian", path |-> TaskNotePath,
                     task_data |-> task_data, exc |-> r.exc, wrote |-> r.wrote,
                     fell_back |-> r.fell_back, ret |-> r.ret]
    /\ UNCHANGED <<search_dirs, governance_monitor, alert_threshold, registryVars,
                   weightVars, rollbackVars>>

NextOrch == AssignAndExecute \/ UpdateTaskStatus \/ CreateNewTask
SpecOrch == InitOrch /\ [][NextOrch]_vars

\* C26: a call for a registered agent makes exactly one call on the Weight
\* Manager: strengthen_connection(agent, task_id) when perform_task returned
\* a result whose status is not "failed", weaken_connection(agent, task_id)
\* when it raised or returned status "failed"; whatever happened to the writes
\* of the report and of the task note.
C26_OutcomeReportedOnce ==
  [][(call'.op = "assign_and_execute_task" /\ IsLive(agents, call'.agent_name)) =>
       /\ Len(call'.reports) = 1
       /\ call'.reports[1].edge = <<call'.agent_name, call'.task_id>>
       /\ (~call'.raised /\ call'.result_status # TextFailed) =>
            /\ call'.reports[1].op = "strengthen_connection"
            /\ node_connections' =
                 strengthen_connection(node_connections, call'.reports[1].edge).conns
       /\ (call'.raised \/ call'.result_status = TextFailed) =>
            /\ call'.reports[1].op = "weaken_connection"
            /\ node_connections' =
                 weaken_connection(node_connections, call'.reports[1].edge).conns]_vars

\* C30: when update_task_status_in_obsidian or create_new_task_in_obsidian
\* returns after it wrote the note, by the bus or by the write it falls back
\* to, the index holds under the note's key the content the vault holds for
\* the note.
C30_StoresAgreeAfterNoteOperation ==
  [][(/\ call'.op \in {"update_task_status_in_obsidian", "create_new_task_in_obsidian"}
      /\ call'.exc = NoExc
      /\ call'.wrote) =>
       \E i \in DOMAIN vector_store' :
         /\ vector_store'[i].doc_id = _normalize_doc_id(call'.path)
         /\ vector_store'[i].content = vault'[call'.path]]_vars

====
